---------------------------- MODULE Spec2Model ----------------------------
(***************************************************************************)
(* The binary codec of psi-spell-encode (lib/src/lib.rs): Spell::extend_bin *)
(* and Spell::bin (value -> bytes) and Spell::decode (bytes -> value).     *)
(* Text is modelled as the sequence of its UTF-8 bytes, a byte as 0..255,   *)
(* Option<T> as a record [some, val], a HashMap as a function.             *)
(***************************************************************************)
EXTENDS Integers, Sequences, FiniteSets, TLC

(***************************************************************************)
(* Text literals of the source, as UTF-8 bytes.                             *)
(***************************************************************************)
NUL == 0
\* b','  b';'  b']'  b':'
COMMA == 44
SEMI == 59
RBRACKET == 93
COLON == 58

\* "psi:"
PSI == <<112, 115, 105, 58>>

\* BUILTIN_PARAMS[i + 1] is the catalog name of index i.
BUILTIN_PARAMS ==
  <<
     (*  0 _target *) <<95, 116, 97, 114, 103, 101, 116>>,
     (*  1 _number *) <<95, 110, 117, 109, 98, 101, 114>>,
     (*  2 _number1 *) <<95, 110, 117, 109, 98, 101, 114, 49>>,
     (*  3 _number2 *) <<95, 110, 117, 109, 98, 101, 114, 50>>,
     (*  4 _number3 *) <<95, 110, 117, 109, 98, 101, 114, 51>>,
     (*  5 _number4 *) <<95, 110, 117, 109, 98, 101, 114, 52>>,
     (*  6 _vector1 *) <<95, 118, 101, 99, 116, 111, 114, 49>>,
     (*  7 _vector2 *) <<95, 118, 101, 99, 116, 111, 114, 50>>,
     (*  8 _vector3 *) <<95, 118, 101, 99, 116, 111, 114, 51>>,
     (*  9 _vector4 *) <<95, 118, 101, 99, 116, 111, 114, 52>>,
     (* 10 _position *) <<95, 112, 111, 115, 105, 116, 105, 111, 110>>,
     (* 11 _min *) <<95, 109, 105, 110>>,
     (* 12 _max *) <<95, 109, 97, 120>>,
     (* 13 _power *) <<95, 112, 111, 119, 101, 114>>,
     (* 14 _x *) <<95, 120>>,
     (* 15 _y *) <<95, 121>>,
     (* 16 _z *) <<95, 122>>,
     (* 17 _radius *) <<95, 114, 97, 100, 105, 117, 115>>,
     (* 18 _distance *) <<95, 100, 105, 115, 116, 97, 110, 99, 101>>,
     (* 19 _time *) <<95, 116, 105, 109, 101>>,
     (* 20 _base *) <<95, 98, 97, 115, 101>>,
     (* 21 _ray *) <<95, 114, 97, 121>>,
     (* 22 _vector *) <<95, 118, 101, 99, 116, 111, 114>>,
     (* 23 _axis *) <<95, 97, 120, 105, 115>>,
     (* 24 _angle *) <<95, 97, 110, 103, 108, 101>>,
     (* 25 _pitch *) <<95, 112, 105, 116, 99, 104>>,
     (* 26 _instrument *) <<95, 105, 110, 115, 116, 114, 117, 109, 101, 110, 116>>,
     (* 27 _volume *) <<95, 118, 111, 108, 117, 109, 101>>,
     (* 28 _list1 *) <<95, 108, 105, 115, 116, 49>>,
     (* 29 _list2 *) <<95, 108, 105, 115, 116, 50>>,
     (* 30 _list *) <<95, 108, 105, 115, 116>>,
     (* 31 _direction *) <<95, 100, 105, 114, 101, 99, 116, 105, 111, 110>>,
     (* 32 _from1 *) <<95, 102, 114, 111, 109, 49>>,
     (* 33 _from2 *) <<95, 102, 114, 111, 109, 50>>,
     (* 34 _to1 *) <<95, 116, 111, 49>>,
     (* 35 _to2 *) <<95, 116, 111, 50>>,
     (* 36 _root *) <<95, 114, 111, 111, 116>>,
     (* 37 _toggle *) <<95, 116, 111, 103, 103, 108, 101>>,
     (* 38 _mask *) <<95, 109, 97, 115, 107>>,
     (* 39 _channel *) <<95, 99, 104, 97, 110, 110, 101, 108>>,
     (* 40 _slot *) <<95, 115, 108, 111, 116>>,
     (* 41 _ray_end *) <<95, 114, 97, 121, 95, 101, 110, 100>>,
     (* 42 _ray_start *) <<95, 114, 97, 121, 95, 115, 116, 97, 114, 116>>
  >>

P_target == BUILTIN_PARAMS[1]
P_x == BUILTIN_PARAMS[15]
P_y == BUILTIN_PARAMS[16]
P_z == BUILTIN_PARAMS[17]
P_vector1 == BUILTIN_PARAMS[7]
P_vector2 == BUILTIN_PARAMS[8]
P_vector3 == BUILTIN_PARAMS[9]
P_number1 == BUILTIN_PARAMS[3]
P_number2 == BUILTIN_PARAMS[4]
P_number3 == BUILTIN_PARAMS[5]

\* enum SpecialTag (repr u8)
Connector == 0
ConstantNumber == 1
VectorConstruct == 2
VectorSum == 3
VectorSub == 4
VectorMul == 5
VectorDiv == 6
Sum == 7
Sub == 8
Mul == 9
Div == 10
Mod == 11
VectorExtractX == 12
VectorExtractY == 13
VectorExtractZ == 14
EntityPosition == 15
EntityLook == 16
Die == 17
ErrSuppressor == 18
Caster == 19
SpecialTag_None == 255

\* SpecialTag::to_key: TagKeyTable[tag + 1] for the twenty special tags.
TagKeyTable ==
  <<
     (*  0 psi:connector *) <<112, 115, 105, 58, 99, 111, 110, 110, 101, 99, 116, 111, 114>>,
     (*  1 psi:constant_number *) <<112, 115, 105, 58, 99, 111, 110, 115, 116, 97, 110, 116, 95, 110, 117, 109, 98, 101, 114>>,
     (*  2 psi:operator_vector_construct *) <<112, 115, 105, 58, 111, 112, 101, 114, 97, 116, 111, 114, 95, 118, 101, 99, 116, 111, 114, 95, 99, 111, 110, 115, 116, 114, 117, 99, 116>>,
     (*  3 psi:operator_vector_sum *) <<112, 115, 105, 58, 111, 112, 101, 114, 97, 116, 111, 114, 95, 118, 101, 99, 116, 111, 114, 95, 115, 117, 109>>,
     (*  4 psi:operator_vector_subtract *) <<112, 115, 105, 58, 111, 112, 101, 114, 97, 116, 111, 114, 95, 118, 101, 99, 116, 111, 114, 95, 115, 117, 98, 116, 114, 97, 99, 116>>,
     (*  5 psi:operator_vector_multiply *) <<112, 115, 105, 58, 111, 112, 101, 114, 97, 116, 111, 114, 95, 118, 101, 99, 116, 111, 114, 95, 109, 117, 108, 116, 105, 112, 108, 121>>,
     (*  6 psi:operator_vector_divide *) <<112, 115, 105, 58, 111, 112, 101, 114, 97, 116, 111, 114, 95, 118, 101, 99, 116, 111, 114, 95, 100, 105, 118, 105, 100, 101>>,
     (*  7 psi:operator_sum *) <<112, 115, 105, 58, 111, 112, 101, 114, 97, 116, 111, 114, 95, 115, 117, 109>>,
     (*  8 psi:operator_subtract *) <<112, 115, 105, 58, 111, 112, 101, 114, 97, 116, 111, 114, 95, 115, 117, 98, 116, 114, 97, 99, 116>>,
     (*  9 psi:operator_multiply *) <<112, 115, 105, 58, 111, 112, 101, 114, 97, 116, 111, 114, 95, 109, 117, 108, 116, 105, 112, 108, 121>>,
     (* 10 psi:operator_divide *) <<112, 115, 105, 58, 111, 112, 101, 114, 97, 116, 111, 114, 95, 100, 105, 118, 105, 100, 101>>,
     (* 11 psi:operator_modulus *) <<112, 115, 105, 58, 111, 112, 101, 114, 97, 116, 111, 114, 95, 109, 111, 100, 117, 108, 117, 115>>,
     (* 12 psi:operator_vector_extract_x *) <<112, 115, 105, 58, 111, 112, 101, 114, 97, 116, 111, 114, 95, 118, 101, 99, 116, 111, 114, 95, 101, 120, 116, 114, 97, 99, 116, 95, 120>>,
     (* 13 psi:operator_vector_extract_y *) <<112, 115, 105, 58, 111, 112, 101, 114, 97, 116, 111, 114, 95, 118, 101, 99, 116, 111, 114, 95, 101, 120, 116, 114, 97, 99, 116, 95, 121>>,
     (* 14 psi:operator_vector_extract_z *) <<112, 115, 105, 58, 111, 112, 101, 114, 97, 116, 111, 114, 95, 118, 101, 99, 116, 111, 114, 95, 101, 120, 116, 114, 97, 99, 116, 95, 122>>,
     (* 15 psi:operator_entity_position *) <<112, 115, 105, 58, 111, 112, 101, 114, 97, 116, 111, 114, 95, 101, 110, 116, 105, 116, 121, 95, 112, 111, 115, 105, 116, 105, 111, 110>>,
     (* 16 psi:operator_entity_look *) <<112, 115, 105, 58, 111, 112, 101, 114, 97, 116, 111, 114, 95, 101, 110, 116, 105, 116, 121, 95, 108, 111, 111, 107>>,
     (* 17 psi:trick_die *) <<112, 115, 105, 58, 116, 114, 105, 99, 107, 95, 100, 105, 101>>,
     (* 18 psi:error_suppressor *) <<112, 115, 105, 58, 101, 114, 114, 111, 114, 95, 115, 117, 112, 112, 114, 101, 115, 115, 111, 114>>,
     (* 19 psi:selector_caster *) <<112, 115, 105, 58, 115, 101, 108, 101, 99, 116, 111, 114, 95, 99, 97, 115, 116, 101, 114>>
  >>

\* The byte-string patterns of the match in extend_bin.
K_connector == <<99, 111, 110, 110, 101, 99, 116, 111, 114>>
K_constant_number == <<99, 111, 110, 115, 116, 97, 110, 116, 95, 110, 117, 109, 98, 101, 114>>
K_operator_vector_construct == <<111, 112, 101, 114, 97, 116, 111, 114, 95, 118, 101, 99, 116, 111, 114, 95, 99, 111, 110, 115, 116, 114, 117, 99, 116>>

(***************************************************************************)
(* Domain model: Spell, Mod, Piece, SpellData, SpellParams.                *)
(***************************************************************************)
\* Option<T>
None == [some |-> FALSE, val |-> <<>>]
Some(v) == [some |-> TRUE, val |-> v]

\* An empty SpellParams (HashMap::new()).
EmptyParams == <<>>

MkMod(name, version) == [name |-> name, version |-> version]

MkData(key, params, constant, comment) ==
  [key |-> key, params |-> params, constant |-> constant, comment |-> comment]

MkPiece(x, y, data) == [data |-> data, x |-> x, y |-> y]

MkSpell(name, mods, pieces) == [name |-> name, mods |-> mods, pieces |-> pieces]

\* struct MissingParamError
MissingParamError(x, y, piece, param) ==
  [x |-> x, y |-> y, piece |-> piece, param |-> param]

NoError == MissingParamError(0, 0, <<>>, <<>>)

(***************************************************************************)
(* Binary encoder: Spell::extend_bin, Spell::bin.                          *)
(***************************************************************************)
\* get_param that answers a missing parameter with a zero byte.
get_param_zeroed(params, piece, key) ==
  IF params.some /\ key \in DOMAIN params.val
    THEN [ok |-> TRUE, val |-> params.val[key], err |-> NoError]
    ELSE [ok |-> TRUE, val |-> 0, err |-> NoError]

\* GetParam::get_param: the closure err names "_target" whatever key is asked.
get_param(params, piece, key) ==
  IF params.some /\ key \in DOMAIN params.val
    THEN [ok |-> TRUE, val |-> params.val[key], err |-> NoError]
    ELSE [ok |-> FALSE, val |-> 0,
          err |-> MissingParamError(piece.x, piece.y, piece.data.key, P_target)]

\* out.push(params.get_param(piece, n)?) for each n of names, in order; the
\* first failing lookup returns, leaving the bytes pushed so far.
RECURSIVE PushParams(_, _, _)
PushParams(params, piece, names) ==
  IF names = <<>>
    THEN [ok |-> TRUE, bytes |-> <<>>, err |-> NoError]
    ELSE LET g == get_param(params, piece, Head(names))
         IN  IF ~g.ok
               THEN [ok |-> FALSE, bytes |-> <<>>, err |-> g.err]
               ELSE LET r == PushParams(params, piece, Tail(names))
                    IN  [ok |-> r.ok, bytes |-> <<g.val>> \o r.bytes, err |-> r.err]

\* &key[0..4] panics when the key has fewer than four bytes.
KeySlicePanics(key) == Len(key) < 4

\* let key = if &key[0..4] == b"psi:" { &key[4..] } else { key };
StripPsi(key) ==
  IF SubSeq(key, 1, 4) = PSI THEN SubSeq(key, 5, Len(key)) ELSE key

\* let special_tag = match key { ... }: three keys only, everything else None.
special_tag(key) ==
  IF key = K_connector THEN Connector
  ELSE IF key = K_constant_number THEN ConstantNumber
  ELSE IF key = K_operator_vector_construct THEN VectorConstruct
  ELSE SpecialTag_None

\* The parameter names each arm of `match special_tag` pushes, in order.
EncTagParams(tag) ==
  IF tag \in {Connector, VectorExtractX, VectorExtractY, VectorExtractZ,
              EntityPosition, EntityLook, Die} THEN <<P_target>>
  ELSE IF tag = VectorConstruct THEN <<P_x, P_y, P_z>>
  ELSE IF tag \in {VectorSum, VectorSub, VectorMul, VectorDiv}
         THEN <<P_vector1, P_vector2, P_vector3>>
  ELSE IF tag \in {Sum, Sub, Mul, Div} THEN <<P_number1, P_number2, P_number3>>
  ELSE IF tag = Mod THEN <<P_number1, P_number2>>
  ELSE <<>>

\* match special_tag { ... }: the tag-specific payload.
TagPayload(tag, piece, key) ==
  IF tag = ConstantNumber
    THEN [ok |-> TRUE, err |-> NoError,
          bytes |-> (IF piece.data.constant.some THEN piece.data.constant.val
                     ELSE <<>>) \o <<NUL>>]
  ELSE IF tag = SpecialTag_None
    THEN [ok |-> TRUE, err |-> NoError, bytes |-> key \o <<NUL>>]
  ELSE PushParams(piece.data.params, piece, EncTagParams(tag))

\* out.push(piece.x << 4 | (piece.y & 0b1111)) on u8.
PackXY(x, y) == ((x * 16) % 256) + (y % 16)

\* BUILTIN_PARAMS.iter().position(|e| **e == *key): 0-based, -1 for None.
Position(name) ==
  IF \E i \in 1..Len(BUILTIN_PARAMS) : BUILTIN_PARAMS[i] = name
    THEN (CHOOSE i \in 1..Len(BUILTIN_PARAMS) :
            /\ BUILTIN_PARAMS[i] = name
            /\ \A j \in 1..(i - 1) : BUILTIN_PARAMS[j] # name) - 1
    ELSE -1

\* for (key, side) in params { ... }: ord is the order in which the HashMap
\* yields its keys.
ParamEntry(key, pos, side) ==
  (IF pos >= 0 THEN <<pos>> ELSE <<255>> \o key \o <<NUL>>) \o <<side>>

\* The entries of ord, in order; the passes of the loop are taken as a first
\* and a second run (a map may hold hundreds of entries).
RECURSIVE ParamEntries(_, _)
ParamEntries(params, ord) ==
  IF ord = <<>> THEN <<>>
  ELSE IF Len(ord) = 1
    THEN ParamEntry(ord[1], Position(ord[1]), params[ord[1]])
  ELSE ParamEntries(params, SubSeq(ord, 1, Len(ord) \div 2))
       \o ParamEntries(params, SubSeq(ord, (Len(ord) \div 2) + 1, Len(ord)))

\* The generic param block written after the comment.
GenericParamBlock(data, ord) ==
  IF data.params.some
    THEN <<Cardinality(DOMAIN data.params.val) % 256>>
         \o ParamEntries(data.params.val, ord)
  ELSE IF data.constant.some
    THEN <<255>> \o data.constant.val \o <<NUL>>
  ELSE <<254>>

SkipsParamBlock_noConnector(tag) == tag \in {ConstantNumber, VectorConstruct}

\* if matches!(special_tag, Connector | ConstantNumber | VectorConstruct) { continue; }
SkipsParamBlock(tag) == tag \in {Connector, ConstantNumber, VectorConstruct}

\* The bytes one piece appends and how its iteration ends, given the tag and
\* the outcome pl of the tag-specific payload: "MissingParam" when a `?` in
\* the payload returned, else the comment and (generic tag only) the param
\* block follow.
WritePiece(piece, ord, tag, pl) ==
  IF ~pl.ok
    THEN [kind |-> "MissingParam", err |-> pl.err,
          bytes |-> <<PackXY(piece.x, piece.y), tag>> \o pl.bytes]
    ELSE [kind |-> "Ok", err |-> NoError,
          bytes |-> <<PackXY(piece.x, piece.y), tag>> \o pl.bytes
                    \o (IF piece.data.comment.some THEN piece.data.comment.val
                        ELSE <<>>) \o <<NUL>>
                    \o (IF SkipsParamBlock(tag) THEN <<>>
                        ELSE GenericParamBlock(piece.data, ord))]

\* One iteration of `for piece in &self.pieces` once the key is stripped.
EncodeKeyed(piece, ord, key) ==
  WritePiece(piece, ord, special_tag(key), TagPayload(special_tag(key), piece, key))

\* One iteration of `for piece in &self.pieces`: the bytes it appends and how
\* it ends ("Ok", "MissingParam" by `?`, "Panic" by the slice).
EncodePiece(piece, ord) ==
  IF KeySlicePanics(piece.data.key)
    THEN [kind |-> "Panic", bytes |-> <<>>, err |-> NoError]
    ELSE EncodeKeyed(piece, ord, StripPsi(piece.data.key))

\* The mods header: "name,version;" per mod with the final ';' overwritten by
\* ']', or a lone ']'.
RECURSIVE ModsJoined(_)
ModsJoined(mods) ==
  IF mods = <<>> THEN <<>>
  ELSE Head(mods).name \o <<COMMA>> \o Head(mods).version \o <<SEMI>>
       \o ModsJoined(Tail(mods))

\* let last = out.len() - 1; out[last] = b']';
CloseHeader(j) == SubSeq(j, 1, Len(j) - 1) \o <<RBRACKET>>

ModsHeader(mods) ==
  IF mods # <<>> THEN CloseHeader(ModsJoined(mods)) ELSE <<RBRACKET>>

\* `for piece in &self.pieces` from piece i on; ords[i] is the iteration order
\* of piece i's param map.  r is the outcome of piece i.
RECURSIVE EncodePieces(_, _, _, _)
AfterPiece(pieces, ords, i, out, r) ==
  IF r.kind = "Ok"
    THEN EncodePieces(pieces, ords, i + 1, out \o r.bytes)
    ELSE [kind |-> r.kind, out |-> out \o r.bytes, err |-> r.err]

EncodePieces(pieces, ords, i, out) ==
  IF i > Len(pieces) THEN [kind |-> "Ok", out |-> out, err |-> NoError]
  ELSE AfterPiece(pieces, ords, i, out, EncodePiece(pieces[i], ords[i]))

\* Spell::extend_bin(&self, out): the result and the buffer it leaves.
extend_bin(spell, ords, out) ==
  EncodePieces(spell.pieces, ords, 1,
               out \o spell.name \o <<NUL>> \o ModsHeader(spell.mods))

\* self.extend_bin(&mut out)?; Ok(out): the Vec is returned on Ok and dropped
\* on Err.
BinResult(r) ==
  [kind |-> r.kind, bytes |-> IF r.kind = "Ok" THEN r.out ELSE <<>>, err |-> r.err]

\* Spell::bin(&self)
bin(spell, ords) == BinResult(extend_bin(spell, ords, <<>>))

(***************************************************************************)
(* Binary decoder: Spell::decode.  pos is the cursor position, the number  *)
(* of bytes of data already consumed.                                      *)
(***************************************************************************)
\* BufRead::read_until on a Cursor, then out.pop(): the bytes up to the
\* delimiter; at the end of the buffer with no delimiter found, pop() drops
\* the last byte read instead.  Never an error.
Popped(raw) == IF raw = <<>> THEN <<>> ELSE SubSeq(raw, 1, Len(raw) - 1)

\* The cursor position after read_until: past the first delimiter at or after
\* pos, or the end of the buffer.
StopAt(data, pos, byte) ==
  IF \E j \in (pos + 1)..Len(data) : data[j] = byte
    THEN CHOOSE j \in (pos + 1)..Len(data) :
           /\ data[j] = byte
           /\ \A k \in (pos + 1)..(j - 1) : data[k] # byte
    ELSE Len(data)

ReadTo(data, pos, stop) == [out |-> Popped(SubSeq(data, pos + 1, stop)), pos |-> stop]

read_until(data, pos, byte) == ReadTo(data, pos, StopAt(data, pos, byte))

read_until_nul(data, pos) == read_until(data, pos, NUL)

\* next: read_exact of one byte, UnexpectedEof at the end of the buffer.
next(data, pos) ==
  IF pos < Len(data)
    THEN [ok |-> TRUE, val |-> data[pos + 1], pos |-> pos + 1]
    ELSE [ok |-> FALSE, val |-> 0, pos |-> pos]

\* String::from_utf8 accepts exactly the well-formed UTF-8 byte sequences.
IsCont(b) == b \in 128..191

RECURSIVE Utf8Valid(_)
Utf8Valid(b) ==
  IF b = <<>> THEN TRUE
  ELSE LET h == b[1]
           n == Len(b)
       IN  IF h < 128 THEN Utf8Valid(Tail(b))
           ELSE IF h \in 194..223
             THEN n >= 2 /\ IsCont(b[2]) /\ Utf8Valid(SubSeq(b, 3, n))
           ELSE IF h \in 224..239
             THEN /\ n >= 3
                  /\ b[2] \in (IF h = 224 THEN 160..191
                               ELSE IF h = 237 THEN 128..159 ELSE 128..191)
                  /\ IsCont(b[3])
                  /\ Utf8Valid(SubSeq(b, 4, n))
           ELSE IF h \in 240..244
             THEN /\ n >= 4
                  /\ b[2] \in (IF h = 240 THEN 144..191
                               ELSE IF h = 244 THEN 128..143 ELSE 128..191)
                  /\ IsCont(b[3])
                  /\ IsCont(b[4])
                  /\ Utf8Valid(SubSeq(b, 5, n))
           ELSE FALSE

\* btos succeeds
btos_ok(b) == Utf8Valid(b)

\* The index of the first occurrence of byte in m, 0 when there is none.
FirstIndex(m, byte) ==
  IF \E j \in 1..Len(m) : m[j] = byte
    THEN CHOOSE j \in 1..Len(m) : m[j] = byte /\ \A k \in 1..(j - 1) : m[k] # byte
    ELSE 0

\* m.split(|b| *b == b';'): always at least one (possibly empty) segment.
RECURSIVE Split(_, _)
SplitAt(m, byte, j) ==
  IF j = 0 THEN <<m>>
  ELSE <<SubSeq(m, 1, j - 1)>> \o Split(SubSeq(m, j + 1, Len(m)), byte)

Split(m, byte) == SplitAt(m, byte, FirstIndex(m, byte))

\* The inner `for b in m` loop: bytes before the first ',' are the name, the
\* other bytes that are not ',' the version.
RECURSIVE WithoutByte(_, _)
WithoutByte(m, byte) ==
  IF m = <<>> THEN <<>>
  ELSE (IF Head(m) = byte THEN <<>> ELSE <<Head(m)>>) \o WithoutByte(Tail(m), byte)

ParseModAt(m, j) ==
  IF j = 0 THEN MkMod(m, <<>>)
  ELSE MkMod(SubSeq(m, 1, j - 1), WithoutByte(SubSeq(m, j + 1, Len(m)), COMMA))

ParseMod(m) == ParseModAt(m, FirstIndex(m, COMMA))

\* for m in m.split(..) { ...; mods.push(Mod { .. }) }
ModsOfSegments(segs) == [i \in 1..Len(segs) |-> ParseMod(segs[i])]

DecodeMods(m) == ModsOfSegments(Split(m, SEMI))

\* SpecialTag::try_from(u8) is Ok
ValidDiscriminant(b) == b \in 0..19 \/ b = 255

\* SpecialTag::to_key
to_key(tag) == IF tag = SpecialTag_None THEN None ELSE Some(TagKeyTable[tag + 1])

\* if !key.contains(&b':') { splice "psi:" in front }; btos(key)?
KeyOfText(r) ==
  [kind |-> IF btos_ok(r.out) THEN "Ok" ELSE "Utf8",
   key |-> IF \E j \in 1..Len(r.out) : r.out[j] = COLON THEN r.out ELSE PSI \o r.out,
   pos |-> r.pos]

\* The key of a piece: the tag's key, or the NUL-terminated text with "psi:"
\* spliced in front when it holds no ':'.
DecodeKey(data, pos, tag) ==
  IF tag # SpecialTag_None
    THEN [kind |-> "Ok", key |-> to_key(tag).val, pos |-> pos]
    ELSE KeyOfText(read_until_nul(data, pos))

DecTagParams_dieBare(tag) ==
  IF tag \in {Connector, VectorExtractX, VectorExtractY, VectorExtractZ,
              EntityPosition, EntityLook} THEN <<P_target>>
  ELSE IF tag = VectorConstruct THEN <<P_x, P_y, P_z>>
  ELSE IF tag \in {VectorSum, VectorSub, VectorMul, VectorDiv}
         THEN <<P_vector1, P_vector2, P_vector3>>
  ELSE IF tag \in {Sum, Sub, Mul, Div} THEN <<P_number1, P_number2, P_number3>>
  ELSE IF tag = Mod THEN <<P_number1, P_number2>>
  ELSE <<>>

\* The parameter names each arm of the decoder's `match special_tag` inserts.
DecTagParams(tag) ==
  IF tag \in {Connector, VectorExtractX, VectorExtractY, VectorExtractZ,
              EntityPosition, EntityLook, Die} THEN <<P_target>>
  ELSE IF tag = VectorConstruct THEN <<P_x, P_y, P_z>>
  ELSE IF tag \in {VectorSum, VectorSub, VectorMul, VectorDiv}
         THEN <<P_vector1, P_vector2, P_vector3>>
  ELSE IF tag \in {Sum, Sub, Mul, Div} THEN <<P_number1, P_number2, P_number3>>
  ELSE IF tag = Mod THEN <<P_number1, P_number2>>
  ELSE <<>>

\* params.insert(key, side)
Insert(params, key, side) ==
  [n \in (DOMAIN params) \cup {key} |-> IF n = key THEN side ELSE params[n]]

\* params.insert(n, next(&mut cursor)?) for each n of names; b is the byte
\* read for the first name.
RECURSIVE ReadParams(_, _, _, _)
AfterParam(data, pos, names, params, b) ==
  IF ~b.ok THEN [kind |-> "Io", params |-> params, pos |-> pos]
  ELSE ReadParams(data, b.pos, Tail(names), Insert(params, Head(names), b.val))

ReadParams(data, pos, names, params) ==
  IF names = <<>> THEN [kind |-> "Ok", params |-> params, pos |-> pos]
  ELSE AfterParam(data, pos, names, params, next(data, pos))

\* constant = Some(btos(read_until_nul(&mut cursor)?)?)
ConstantOfText(r) ==
  [kind |-> IF btos_ok(r.out) THEN "Ok" ELSE "Utf8",
   params |-> EmptyParams, constant |-> Some(r.out), pos |-> r.pos]

ParamsRead(r) ==
  [kind |-> r.kind, params |-> r.params, constant |-> None, pos |-> r.pos]

\* match special_tag { ... } of the decoder.
DecodePayload(data, pos, tag) ==
  IF tag = ConstantNumber
    THEN ConstantOfText(read_until_nul(data, pos))
    ELSE ParamsRead(ReadParams(data, pos, DecTagParams(tag), EmptyParams))

\* One pass of the body of `for _ in 0..len`, as the chain of its fallible
\* steps.  BUILTIN_PARAMS[type_or_pos as usize] panics for an index of 43 or
\* more.
\* let side = next(&mut cursor)?; params.insert(param_key, side);
AfterSide(pos, params, param_key, side) ==
  IF ~side.ok THEN [kind |-> "Io", params |-> params, pos |-> pos]
  ELSE [kind |-> "Ok", params |-> Insert(params, param_key, side.val),
        pos |-> side.pos]

\* type_or_pos == 255: the name is the NUL-terminated text lit.
AfterLiteralName(data, pos, params, lit) ==
  IF ~btos_ok(lit.out) THEN [kind |-> "Utf8", params |-> params, pos |-> pos]
  ELSE AfterSide(pos, params, lit.out, next(data, lit.pos))

\* t is the byte read as type_or_pos.
AfterNameByte(data, pos, params, t) ==
  IF ~t.ok THEN [kind |-> "Io", params |-> params, pos |-> pos]
  ELSE IF t.val = 255
    THEN AfterLiteralName(data, pos, params, read_until_nul(data, t.pos))
  ELSE IF t.val >= Len(BUILTIN_PARAMS)
    THEN [kind |-> "Panic", params |-> params, pos |-> pos]
  ELSE AfterSide(pos, params, BUILTIN_PARAMS[t.val + 1], next(data, t.pos))

ReadEntry(data, pos, params) == AfterNameByte(data, pos, params, next(data, pos))

\* for _ in 0..len { ... }: the counted entries of a generic param block, the
\* passes of the loop taken as a first and a second run (len may be 253).
RECURSIVE ReadEntries(_, _, _, _)
AfterEntries(data, len, first) ==
  IF first.kind # "Ok" THEN first
  ELSE ReadEntries(data, first.pos, len, first.params)

ReadEntries(data, pos, len, params) ==
  IF len = 0 THEN [kind |-> "Ok", params |-> params, pos |-> pos]
  ELSE IF len = 1 THEN ReadEntry(data, pos, params)
  ELSE AfterEntries(data, len - (len \div 2),
                    ReadEntries(data, pos, len \div 2, params))

\* ty is the byte read after the comment of a generic piece.
AfterTy(data, pos, ty) ==
  IF ~ty.ok
    THEN [kind |-> "Io", params |-> EmptyParams, constant |-> None, pos |-> pos]
  ELSE IF ty.val = 255 THEN ConstantOfText(read_until_nul(data, ty.pos))
  ELSE IF ty.val # 254
    THEN ParamsRead(ReadEntries(data, ty.pos, ty.val, EmptyParams))
  ELSE [kind |-> "Ok", params |-> EmptyParams, constant |-> None, pos |-> ty.pos]

\* let ty = next(&mut cursor)?; if ty == 255 {..} else if ty != 254 {..}
DecodeGeneric(data, pos) == AfterTy(data, pos, next(data, pos))

\* if params.is_empty() { None } else { Some(params) }
ParamsOption_present(params) == Some(params)

\* if params.is_empty() { None } else { Some(params) }
ParamsOption(params) == IF DOMAIN params = {} THEN None ELSE Some(params)

DecodeFail(kind, pos) ==
  [kind |-> kind, pos |-> pos,
   piece |-> MkPiece(0, 0, MkData(<<>>, None, None, None))]

\* pieces.push(Piece { data: SpellData { key, params, constant, comment }, x, y })
\* with x = xy >> 4, y = xy & 0b1111 and an empty comment read as None.
PieceRead(xy, key, params, constant, cm, pos) ==
  [kind |-> "Ok", pos |-> pos,
   piece |-> MkPiece(xy \div 16, xy % 16,
                     MkData(key, ParamsOption(params), constant,
                            IF cm = <<>> THEN None ELSE Some(cm)))]

\* One iteration of `while cursor.fill_buf().map(|b| !b.is_empty())?`, as the
\* chain of its fallible steps: each After.. takes the outcome of the step
\* before it.
AfterGeneric(pos, xy, key, cm, g) ==
  IF g.kind # "Ok" THEN DecodeFail(g.kind, pos)
  ELSE PieceRead(xy, key, g.params, g.constant, cm, g.pos)

AfterComment(data, pos, xy, tag, key, pl, cm) ==
  IF ~btos_ok(cm.out) THEN DecodeFail("Utf8", pos)
  ELSE IF tag # SpecialTag_None
    THEN PieceRead(xy, key, pl.params, pl.constant, cm.out, cm.pos)
  ELSE AfterGeneric(pos, xy, key, cm.out, DecodeGeneric(data, cm.pos))

AfterPayload(data, pos, xy, tag, key, pl) ==
  IF pl.kind # "Ok" THEN DecodeFail(pl.kind, pos)
  ELSE AfterComment(data, pos, xy, tag, key, pl, read_until_nul(data, pl.pos))

AfterKey(data, pos, xy, tag, k) ==
  IF k.kind # "Ok" THEN DecodeFail(k.kind, pos)
  ELSE AfterPayload(data, pos, xy, tag, k.key, DecodePayload(data, k.pos, tag))

AfterTagByte(data, pos, xy, tg) ==
  IF ~tg.ok THEN DecodeFail("Io", pos)
  ELSE IF ~ValidDiscriminant(tg.val) THEN DecodeFail("InvalidDiscriminant", pos)
  ELSE AfterKey(data, pos, xy, tg.val, DecodeKey(data, tg.pos, tg.val))

AfterXY(data, pos, xy) ==
  IF ~xy.ok THEN DecodeFail("Io", pos)
  ELSE AfterTagByte(data, pos, xy.val, next(data, xy.pos))

DecodePiece(data, pos) == AfterXY(data, pos, next(data, pos))

\* The piece loop: until the cursor is exhausted.
RECURSIVE DecodePieces(_, _, _)
AfterDecodedPiece(data, pieces, r) ==
  IF r.kind # "Ok" THEN [kind |-> r.kind, pieces |-> <<>>]
  ELSE DecodePieces(data, r.pos, Append(pieces, r.piece))

DecodePieces(data, pos, pieces) ==
  IF pos >= Len(data) THEN [kind |-> "Ok", pieces |-> pieces]
  ELSE AfterDecodedPiece(data, pieces, DecodePiece(data, pos))

EmptySpell == MkSpell(<<>>, <<>>, <<>>)

\* Ok(Self { name, mods, pieces })
SpellRead(name, mods, ps) ==
  IF ps.kind # "Ok" THEN [kind |-> ps.kind, spell |-> EmptySpell]
  ELSE [kind |-> "Ok", spell |-> MkSpell(name, mods, ps.pieces)]

AfterMods(data, name, mods, pos) ==
  IF \E i \in 1..Len(mods) : ~btos_ok(mods[i].name) \/ ~btos_ok(mods[i].version)
    THEN [kind |-> "Utf8", spell |-> EmptySpell]
    ELSE SpellRead(name, mods, DecodePieces(data, pos, <<>>))

AfterHeaderText(data, name, m) == AfterMods(data, name, DecodeMods(m.out), m.pos)

AfterName(data, nm) ==
  IF ~btos_ok(nm.out) THEN [kind |-> "Utf8", spell |-> EmptySpell]
  ELSE AfterHeaderText(data, nm.out, read_until(data, nm.pos, RBRACKET))

\* Spell::decode(data): kind "Ok" with the spell, or the error ("Io",
\* "Utf8", "InvalidDiscriminant"), or "Panic".
decode(data) == AfterName(data, read_until_nul(data, 0))

(***************************************************************************)
(* Transport codec: dictionary compression and URL-safe base64.            *)
(***************************************************************************)
\* The URL-safe alphabet: A-Z a-z 0-9 - _
B64Chars ==
  <<65, 66, 67, 68, 69, 70, 71, 72, 73, 74, 75, 76, 77, 78, 79, 80, 81, 82, 83,
    84, 85, 86, 87, 88, 89, 90, 97, 98, 99, 100, 101, 102, 103, 104, 105, 106,
    107, 108, 109, 110, 111, 112, 113, 114, 115, 116, 117, 118, 119, 120, 121,
    122, 48, 49, 50, 51, 52, 53, 54, 55, 56, 57, 45, 95>>

\* '='
PAD == 61

ByteAt(b, i) == IF i <= Len(b) THEN b[i] ELSE 0

\* The 24-bit value of the g-th (0-based) group of three bytes of b.
Group24(b, g) ==
  ByteAt(b, 3 * g + 1) * 65536 + ByteAt(b, 3 * g + 2) * 256 + ByteAt(b, 3 * g + 3)

\* The number of alphabet characters that encode n bytes.
B64Len(n) == 4 * (n \div 3) + (IF n % 3 = 0 THEN 0 ELSE (n % 3) + 1)

\* The alphabet characters of the encoding of b.
B64Symbols(b) ==
  [j \in 1..B64Len(Len(b)) |->
     B64Chars[((Group24(b, (j - 1) \div 4) \div (64 ^ (3 - ((j - 1) % 4)))) % 64) + 1]]

\* '=' up to a multiple of four characters.
B64Padding(n) == [j \in 1..((4 - (n % 4)) % 4) |-> PAD]

\* Engine::encode: padded (base64_simd::URL_SAFE) or not
\* (BASE64_URL_SAFE_NO_PAD).
Base64Encode(b, padded) ==
  B64Symbols(b) \o (IF padded THEN B64Padding(B64Len(Len(b))) ELSE <<>>)

IsB64Char(c) == \E i \in 1..64 : B64Chars[i] = c

Sextet(c) == (CHOOSE i \in 1..64 : B64Chars[i] = c) - 1

SextetAt(t, j) == IF j <= Len(t) THEN Sextet(t[j]) ELSE 0

\* The 24-bit value of the g-th (0-based) group of four characters of t.
Quad24(t, g) ==
  SextetAt(t, 4 * g + 1) * 262144 + SextetAt(t, 4 * g + 2) * 4096
  + SextetAt(t, 4 * g + 3) * 64 + SextetAt(t, 4 * g + 4)

\* The number of bytes that n alphabet characters decode to.
B64Bytes(n) == 3 * (n \div 4) + (IF n % 4 = 0 THEN 0 ELSE (n % 4) - 1)

\* The text without its trailing '=' characters (at most two).
Unpadded(t) ==
  IF Len(t) >= 2 /\ t[Len(t)] = PAD /\ t[Len(t) - 1] = PAD
    THEN SubSeq(t, 1, Len(t) - 2)
  ELSE IF Len(t) >= 1 /\ t[Len(t)] = PAD THEN SubSeq(t, 1, Len(t) - 1)
  ELSE t

\* The alphabet characters u are a canonical encoding: every character in
\* the alphabet, no dangling single character, no set bits beyond the last
\* whole byte.
B64Canonical(u) ==
  /\ \A j \in 1..Len(u) : IsB64Char(u[j])
  /\ Len(u) % 4 # 1
  /\ Len(u) % 4 = 2 => Sextet(u[Len(u)]) % 16 = 0
  /\ Len(u) % 4 = 3 => Sextet(u[Len(u)]) % 4 = 0

B64Decoded(u) ==
  [i \in 1..B64Bytes(Len(u)) |->
     (Quad24(u, (i - 1) \div 3) \div (256 ^ (2 - ((i - 1) % 3)))) % 256]

\* Engine::decode: strict; the padded engine requires the padding, the other
\* rejects it.
Base64Decode(t, padded) ==
  IF padded
    THEN IF Len(t) % 4 = 0 /\ B64Canonical(Unpadded(t))
           THEN [ok |-> TRUE, bytes |-> B64Decoded(Unpadded(t))]
           ELSE [ok |-> FALSE, bytes |-> <<>>]
    ELSE IF B64Canonical(t)
           THEN [ok |-> TRUE, bytes |-> B64Decoded(t)]
           ELSE [ok |-> FALSE, bytes |-> <<>>]

\* The dictionary blobs, by their dictionary IDs.
ZSTD_DICT_RAW == 1
ZSTD_DICT == 1

\* Block types of a compressed frame.
RAW_BLOCK == 0
RLE_BLOCK == 1

\* A compressed frame, reduced to its dictionary ID, one block with its type
\* and regenerated size, and the block content: the bytes themselves, or the
\* repeated byte of a run.
IsRun(b) == Len(b) >= 2 /\ \A i \in 1..Len(b) : b[i] = b[1]

\* Compressor::compress with dictionary dict.
Compress(dict, b) ==
  IF IsRun(b) THEN <<dict, RLE_BLOCK, Len(b), b[1]>>
  ELSE <<dict, RAW_BLOCK, Len(b)>> \o b

\* The frame is one the decompressor with dictionary dict accepts.
FrameValid(dict, f) ==
  /\ Len(f) >= 3
  /\ f[1] = dict
  /\ \/ f[2] = RAW_BLOCK /\ Len(f) = 3 + f[3]
     \/ f[2] = RLE_BLOCK /\ Len(f) = 4

\* The bytes a valid frame regenerates.
Regenerated(f) ==
  IF f[2] = RLE_BLOCK THEN [i \in 1..f[3] |-> f[4]] ELSE SubSeq(f, 4, Len(f))

\* bulk::Decompressor::decompress(data, capacity): an error when the frame
\* is invalid or regenerates more than capacity bytes.
Decompress(dict, f, capacity) ==
  IF FrameValid(dict, f) /\ f[3] <= capacity
    THEN [kind |-> "Ok", bytes |-> Regenerated(f)]
    ELSE [kind |-> "Zstd", bytes |-> <<>>]

\* std::io::copy(&mut stream::Decoder, &mut dest): everything the frame
\* regenerates.
DecompressStream(dict, f) ==
  IF FrameValid(dict, f)
    THEN [kind |-> "Ok", bytes |-> Regenerated(f)]
    ELSE [kind |-> "Zstd", bytes |-> <<>>]

\* decoder.decompress(&decoded, 2 << 20): the capacity, scaled to the byte
\* strings of the model.
Capacity == 3

\* The value a thread's ZSTD_CDICT / ZSTD_DDICT cell holds before its first
\* use, and the dictionary its initializer builds and leaks; owner stands for
\* the address of the leaked allocation.
Unbuilt == [built |-> FALSE, raw |-> 0, level |-> 0, owner |-> 0]

EncoderDictionary(t) ==
  [built |-> TRUE, raw |-> ZSTD_DICT_RAW, level |-> 22, owner |-> t]

DecoderDictionary(t) ==
  [built |-> TRUE, raw |-> ZSTD_DICT_RAW, level |-> 0, owner |-> t]

\* byte_slice_to_url_safe(bytes) / bytes_to_url_safe(bytes), d being the
\* prepared dictionary ZSTD_CDICT.with hands the closure.
byte_slice_to_url_safe(d, bytes) == Base64Encode(Compress(d.raw, bytes), FALSE)

bytes_to_url_safe(d, bytes) == byte_slice_to_url_safe(d, bytes)

\* decoder.decompress(&decoded, 2 << 20)? once the text is decoded.
AfterBase64(d, decoded) ==
  IF ~decoded.ok THEN [kind |-> "Base64", bytes |-> <<>>]
  ELSE Decompress(d.raw, decoded.bytes, Capacity)

url_safe_to_bytes_padded(d, url_safe) == AfterBase64(d, Base64Decode(url_safe, TRUE))

\* url_safe_to_bytes(url_safe), d being the prepared dictionary of ZSTD_DDICT.
url_safe_to_bytes(d, url_safe) == AfterBase64(d, Base64Decode(url_safe, FALSE))

\* The crate in src/src: bytesToUrlSafe and urlSafeToBytes.
bytesToUrlSafe(bytes) == Base64Encode(Compress(ZSTD_DICT, bytes), TRUE)

AfterBase64Simd(decoded) ==
  IF ~decoded.ok THEN [kind |-> "Base64", bytes |-> <<>>]
  ELSE DecompressStream(ZSTD_DICT, decoded.bytes)

urlSafeToBytes(url_safe) == AfterBase64Simd(Base64Decode(url_safe, TRUE))

(***************************************************************************)
(* The values and byte strings the operations are applied to.              *)
(***************************************************************************)
MaxMods == 2
MaxPieces == 2

\* "Test"
T_Test == <<84, 101, 115, 116>>
\* piece keys: "psi:trick_debug", "othermod:bar", "foobar", "foo", "a:b",
\* "psi:a:b", "connector"
T_trick_debug == <<112, 115, 105, 58, 116, 114, 105, 99, 107, 95, 100, 101, 98, 117, 103>>
T_othermod_bar == <<111, 116, 104, 101, 114, 109, 111, 100, 58, 98, 97, 114>>
T_foobar == <<102, 111, 111, 98, 97, 114>>
T_foo == <<102, 111, 111>>
T_a_b == <<97, 58, 98>>
T_psi_a_b == <<112, 115, 105, 58, 97, 58, 98>>
\* a parameter name outside the catalog, a comment, a constant: "p", "c", "5"
T_p == <<112>>
T_c == <<99>>
T_5 == <<53>>

Names == {T_Test}

\* Mod i of a mods list: ("a","1"), ("b","2"), ...
ModAt(i) == MkMod(<<96 + i>>, <<48 + i>>)

ModLists == {IF n = 0 THEN <<>> ELSE [i \in 1..n |-> ModAt(i)] : n \in 0..MaxMods}

\* The param mapping holding names[i] |-> i for each i.
ParamsOf(names) == [n \in {names[i] : i \in 1..Len(names)} |->
                      CHOOSE i \in 1..Len(names) : names[i] = n]

\* The piece whose key and parameters are exactly the shape of special tag t.
ShapePiece(t) ==
  MkPiece(3, 15,
    MkData(TagKeyTable[t + 1],
           IF DecTagParams(t) = <<>> THEN None ELSE Some(ParamsOf(DecTagParams(t))),
           IF t = ConstantNumber THEN Some(T_5) ELSE None,
           None))

ShapePieces == {ShapePiece(t) : t \in 0..19}

ConnectorPieces ==
  {MkPiece(0, 0, MkData(TagKeyTable[Connector + 1], ps, None, cm)) :
     ps \in {None, Some(EmptyParams), Some(P_target :> 3), Some(P_x :> 1)},
     cm \in {None, Some(T_c)}}
  \cup {MkPiece(1, 2, MkData(K_connector, Some(P_target :> 3), None, None))}

VectorConstructPieces ==
  {MkPiece(1, 2, MkData(TagKeyTable[VectorConstruct + 1], ps, None, None)) :
     ps \in {None, Some(ParamsOf(<<P_y, P_z>>)), Some(ParamsOf(<<P_x, P_z>>)),
             Some(ParamsOf(<<P_x, P_y>>))}}

ConstantNumberPieces ==
  {MkPiece(1, 2, MkData(TagKeyTable[ConstantNumber + 1], None, None, None)),
   MkPiece(1, 2, MkData(TagKeyTable[ConstantNumber + 1], Some(P_target :> 3),
                        Some(T_5), Some(T_c)))}

GenericPieces ==
  {MkPiece(1, 2, MkData(T_trick_debug, v[1], v[2], cm)) :
     v \in {<<None, None>>, <<Some(P_target :> 1), None>>,
             <<Some(P_target :> 1 @@ T_p :> 2), None>>, <<None, Some(T_5)>>,
             <<Some(EmptyParams), None>>, <<Some(P_target :> 1), Some(T_5)>>},
     cm \in {None, Some(T_c)}}
  \cup {MkPiece(1, 2, MkData(k, None, None, None)) :
          k \in {T_othermod_bar, T_foobar, T_foo, T_a_b, T_psi_a_b, <<>>}}
  \cup {MkPiece(1, 2, MkData(T_othermod_bar, Some(T_p :> 2), None, Some(T_c))),
        MkPiece(16, 17, MkData(T_trick_debug, None, None, None))}

Pieces ==
  ShapePieces \cup ConnectorPieces \cup VectorConstructPieces
  \cup ConstantNumberPieces \cup GenericPieces

\* The pieces that may precede the last piece of a spell.
HeadPieces ==
  {MkPiece(0, 0, MkData(T_trick_debug, Some(P_target :> 1), None, Some(T_c)))}

RECURSIVE HeadLists(_)
HeadLists(n) ==
  IF n = 0 THEN {<<>>}
  ELSE HeadLists(n - 1)
       \cup {<<h>> \o t : h \in HeadPieces,
                          t \in {l \in HeadLists(n - 1) : Len(l) = n - 1}}

PieceLists ==
  {<<>>} \cup {h \o <<p>> : h \in HeadLists(MaxPieces - 1), p \in Pieces}

Spells == {MkSpell(n, m, ps) : n \in Names, m \in ModLists, ps \in PieceLists}

\* The orders in which a HashMap with key set S may yield its keys.
Perms(S) ==
  IF S = {} THEN {<<>>}
  ELSE {o \in [1..Cardinality(S) -> S] :
          \A i, j \in 1..Cardinality(S) : o[i] = o[j] => i = j}

ParamKeys(piece) ==
  IF piece.data.params.some THEN DOMAIN piece.data.params.val ELSE {}

\* One iteration order per piece of the spell.
Orders(s) ==
  IF s.pieces = <<>> THEN {<<>>}
  ELSE {o \in [1..Len(s.pieces) ->
                 UNION {Perms(ParamKeys(s.pieces[i])) : i \in 1..Len(s.pieces)}] :
          \A i \in 1..Len(s.pieces) : o[i] \in Perms(ParamKeys(s.pieces[i]))}

\* Param mappings around the width of the count byte (`params.len() as u8`):
\* n entries named "aa", "ab", ..., each a valid literal name.
BigCounts == {0, 1, 2, 253, 254, 255, 256, 257}

BigKey(i) == <<97 + (i \div 16), 97 + (i % 16)>>

BigParams(n) == [k \in {BigKey(i) : i \in 0..(n - 1)} |-> k[2] - 96]

BigPieces ==
  {MkPiece(1, 2, MkData(k, Some(BigParams(n)), None, cm)) :
     k \in {T_trick_debug, T_othermod_bar}, n \in BigCounts, cm \in {None, Some(T_c)}}

BigSpells == {MkSpell(n, m, <<p>>) : n \in Names, m \in ModLists, p \in BigPieces}

\* Two of the orders in which the HashMap of a large mapping may yield its
\* keys: by ascending and by descending name.
BigOrders(s) ==
  {<<[j \in 1..Cardinality(ParamKeys(s.pieces[1])) |-> BigKey(j - 1)]>>,
   <<[j \in 1..Cardinality(ParamKeys(s.pieces[1])) |->
        BigKey(Cardinality(ParamKeys(s.pieces[1])) - j)]>>}

\* The threads that call the transport codec.
MaxThreads == 2
Threads == 1..MaxThreads

\* The byte strings handed to the transport encoders: up to one byte more
\* than the decompression capacity.
TByteValues == {0, 65, 255}

RECURSIVE SeqsUpTo(_, _)
SeqsUpTo(S, n) ==
  IF n = 0 THEN {<<>>}
  ELSE SeqsUpTo(S, n - 1)
       \cup {Append(q, x) : q \in {r \in SeqsUpTo(S, n - 1) : Len(r) = n - 1}, x \in S}

TBytes == SeqsUpTo(TByteValues, Capacity + 1)

\* Frames no encoder of the model produced: runs of Capacity, Capacity + 1
\* and 200 bytes, a frame of another dictionary, a cut frame, no frame.
ForeignFrames ==
  {<<ZSTD_DICT_RAW, RLE_BLOCK, n, 7>> : n \in {Capacity, Capacity + 1, 200}}
  \cup {<<ZSTD_DICT_RAW + 1, RAW_BLOCK, 1, 65>>, <<ZSTD_DICT_RAW, RAW_BLOCK, 2, 65>>, <<>>}

\* The texts a caller may hand to the transport decoders besides what the
\* encoders returned: the foreign frames in both renderings, "A+B/", "A" and
\* "AB" (set bits after the last whole byte).
ForeignTexts ==
  {Base64Encode(f, padded) : f \in ForeignFrames, padded \in BOOLEAN}
  \cup {<<65, 43, 66, 47>>, <<65>>, <<65, 66>>}

\* The spells the descriptions of the trainer's posts hold, in the order of
\* the digit that stands for their text: a generic piece with a comment; a
\* connector without _target; an rpsideas piece; the legacy key
\* "trickDebug"; the key "a:b"; a commented piece followed by a connector
\* without _target; no piece.
T_rpsideas == <<114, 112, 115, 105, 100, 101, 97, 115>>
T_trickDebug == <<116, 114, 105, 99, 107, 68, 101, 98, 117, 103>>

TrainerSpells ==
  <<MkSpell(T_Test, <<>>, <<MkPiece(1, 2, MkData(T_trick_debug, Some(P_target :> 1),
                                                  None, Some(T_c)))>>),
    MkSpell(T_Test, <<>>, <<MkPiece(0, 0, MkData(PSI \o K_connector, None, None, None))>>),
    MkSpell(T_Test, <<>>, <<MkPiece(1, 2, MkData(T_rpsideas \o <<COLON>> \o T_p, None,
                                                  None, None))>>),
    MkSpell(T_Test, <<>>, <<MkPiece(1, 2, MkData(T_trickDebug, None, None, None))>>),
    MkSpell(T_Test, <<>>, <<MkPiece(1, 2, MkData(T_a_b, None, None, None))>>),
    MkSpell(T_Test, <<>>, <<MkPiece(1, 2, MkData(T_trick_debug, None, None, Some(T_c))),
                            MkPiece(0, 0, MkData(PSI \o K_connector, None, None, None))>>),
    MkSpell(T_Test, <<>>, <<>>)>>

\* b'{' and b'\n'
LBRACE == 123
NEWLINE == 10

\* The lines of a description: the text of each spell, a line without a
\* brace, a lone brace, a spell text after other text.
DescLines ==
  {<<LBRACE, 48 + (i - 1)>> : i \in 1..Len(TrainerSpells)}
  \cup {<<120>>, <<LBRACE>>, <<120, LBRACE, 48>>}

MaxLines == 2

\* Descriptions of up to n lines.
RECURSIVE DescsOf(_)
DescsOf(n) ==
  IF n = 0 THEN {<<>>}
  ELSE DescLines
       \cup {l \o <<NEWLINE>> \o d : l \in DescLines, d \in DescsOf(n - 1)}

Descs == DescsOf(MaxLines)

\* Buffers a caller of extend_bin may hand in.
PriorBuffers == {<<>>, <<171, 0>>}

\* The bytes a single-byte corruption of an encoding may put in place.
FuzzBytes == {0, 20, 43, 254, 255}

(***************************************************************************)
(* State and operations.                                                   *)
(***************************************************************************)
VARIABLES
  pc,         \* "start", "extended", "encoded", "decoded"
  spell,      \* the Spell value handed to the encoder
  ords,       \* the iteration order of each piece's param map in that call
  outBefore,  \* the caller's buffer before extend_bin
  out,        \* the buffer after extend_bin, or the Vec bin returned
  res,        \* how the encoder call ended: [kind, err]
  data,       \* the bytes handed to decode
  dec,        \* what decode returned: [kind, spell]
  again,      \* what a second bin call on the same value returned
  tpc,        \* transport: "idle", "text" (a text is at hand), "done"
  tbytes,     \* the bytes last handed to a transport encoder
  tenc,       \* where the text came from: "lib", "wasm", "foreign"
  ttext,      \* the URL-safe text at hand
  tdec,       \* the decoder last called: "lib", "wasm"
  tres,       \* what it returned: [kind, bytes]
  cdict,      \* ZSTD_CDICT of each thread
  ddict,      \* ZSTD_DDICT of each thread
  kpc,        \* trainer: "scan", "scanned", "returned", "training", "crashed"
  desc,       \* the rest of the description text `process` is scanning
  samples,    \* the sample buffer
  sample_sizes,  \* the sizes of the samples
  spells,     \* (snbt length, binary length, spell) of each sampled spell
  piece_counts   \* occurrences of each piece key

codecVars == <<pc, spell, ords, outBefore, out, res, data, dec, again>>

transportVars == <<tpc, tbytes, tenc, ttext, tdec, tres, cdict, ddict>>

trainerVars == <<kpc, desc, samples, sample_sizes, spells, piece_counts>>

\* The state of the other components, which no codec operation touches.
nonCodecVars == <<transportVars, trainerVars>>

nonTransportVars == <<codecVars, trainerVars>>

nonTrainerVars == <<codecVars, transportVars>>

vars == <<codecVars, nonCodecVars>>

NoResult == [kind |-> "none", err |-> NoError]
NoDecode == [kind |-> "none", spell |-> EmptySpell]
NoBytes == [kind |-> "none", bytes |-> <<>>, err |-> NoError]

NoTransport == [kind |-> "none", bytes |-> <<>>]

\* No transport call was made yet: no thread has built a dictionary.
TransportIdle ==
  /\ tpc = "idle"
  /\ tbytes = <<>>
  /\ tenc = "none"
  /\ ttext = <<>>
  /\ tdec = "none"
  /\ tres = NoTransport
  /\ cdict = [t \in Threads |-> Unbuilt]
  /\ ddict = [t \in Threads |-> Unbuilt]

\* The trainer has not started.
TrainerIdle ==
  /\ kpc = "scan"
  /\ desc = <<>>
  /\ samples = <<>>
  /\ sample_sizes = <<>>
  /\ spells = <<>>
  /\ piece_counts = <<>>

Init ==
  /\ TransportIdle
  /\ TrainerIdle
  /\ pc = "start"
  /\ spell \in Spells
  /\ ords = <<>>
  /\ outBefore = <<>>
  /\ out = <<>>
  /\ res = NoResult
  /\ data = <<>>
  /\ dec = NoDecode
  /\ again = NoBytes

\* The encoder call returned r.
Returned(r, buffer) ==
  /\ out' = buffer
  /\ res' = [kind |-> r.kind, err |-> r.err]

ExtendBinReturned(r) == Returned(r, r.out)

BinReturned(r) == Returned(r, r.bytes)

\* spell.extend_bin(&mut out) on a caller-supplied buffer.
ExtendBinCall ==
  /\ pc = "start"
  /\ \E prior \in PriorBuffers, o \in Orders(spell) :
       /\ ords' = o
       /\ outBefore' = prior
       /\ ExtendBinReturned(extend_bin(spell, o, prior))
  /\ pc' = "extended"
  /\ UNCHANGED <<spell, data, dec, again>>
  /\ UNCHANGED nonCodecVars

\* spell.bin()
BinCall ==
  /\ pc = "start"
  /\ \E o \in Orders(spell) :
       /\ ords' = o
       /\ BinReturned(bin(spell, o))
  /\ pc' = "encoded"
  /\ UNCHANGED <<spell, outBefore, data, dec, again>>
  /\ UNCHANGED nonCodecVars

\* A second spell.bin() on an equal value: the param maps of the two values
\* are separate HashMaps (std's RandomState), each with its own iteration
\* order.
BinAgainCall ==
  /\ pc = "encoded"
  /\ \E o \in Orders(spell) : again' = bin(spell, o)
  /\ pc' = "reencoded"
  /\ UNCHANGED <<spell, ords, outBefore, out, res, data, dec>>
  /\ UNCHANGED nonCodecVars

\* Spell::decode on the bytes bin returned.
DecodeEncoded ==
  /\ pc = "encoded"
  /\ res.kind = "Ok"
  /\ data' = out
  /\ dec' = decode(data')
  /\ pc' = "decoded"
  /\ UNCHANGED <<spell, ords, outBefore, out, res, again>>
  /\ UNCHANGED nonCodecVars

\* Spell::decode on a proper prefix of the bytes bin returned.
DecodePrefix ==
  /\ pc = "encoded"
  /\ res.kind = "Ok"
  /\ \E n \in 0..(Len(out) - 1) : data' = SubSeq(out, 1, n)
  /\ dec' = decode(data')
  /\ pc' = "decoded"
  /\ UNCHANGED <<spell, ords, outBefore, out, res, again>>
  /\ UNCHANGED nonCodecVars

\* Spell::decode on the bytes bin returned with one byte replaced.
DecodeCorrupted ==
  /\ pc = "encoded"
  /\ res.kind = "Ok"
  /\ \E i \in 1..Len(out), b \in FuzzBytes :
       /\ b # out[i]
       /\ data' = [out EXCEPT ![i] = b]
  /\ dec' = decode(data')
  /\ pc' = "decoded"
  /\ UNCHANGED <<spell, ords, outBefore, out, res, again>>
  /\ UNCHANGED nonCodecVars

\* The offset in the bytes bin returned of the opcode byte of piece k: the
\* byte after the packed x,y that follows piece k - 1 (the header for k = 1).
RECURSIVE OpcodeOffset(_, _, _)
OpcodeOffset(s, o, k) ==
  IF k = 1 THEN Len(s.name) + 1 + Len(ModsHeader(s.mods)) + 2
  ELSE OpcodeOffset(s, o, k - 1) + Len(EncodePiece(s.pieces[k - 1], o[k - 1]).bytes)

\* Spell::decode on the bytes bin returned with the opcode byte of one piece
\* replaced by another special tag's.
DecodeRetagged ==
  /\ pc = "encoded"
  /\ res.kind = "Ok"
  /\ \E k \in 1..Len(spell.pieces), t \in 0..19 :
       /\ data' = [out EXCEPT ![OpcodeOffset(spell, ords, k)] = t]
       /\ data' # out
  /\ dec' = decode(data')
  /\ pc' = "decoded"
  /\ UNCHANGED <<spell, ords, outBefore, out, res, again>>
  /\ UNCHANGED nonCodecVars

Next ==
  \/ ExtendBinCall
  \/ BinCall
  \/ BinAgainCall
  \/ DecodeEncoded
  \/ DecodePrefix
  \/ DecodeCorrupted
  \/ DecodeRetagged

Spec == Init /\ [][Next]_vars

(***************************************************************************)
(* Encoding and decoding pieces with large param mappings.                 *)
(***************************************************************************)
CountInit ==
  /\ TransportIdle
  /\ TrainerIdle
  /\ pc = "start"
  /\ spell \in BigSpells
  /\ ords = <<>>
  /\ outBefore = <<>>
  /\ out = <<>>
  /\ res = NoResult
  /\ data = <<>>
  /\ dec = NoDecode
  /\ again = NoBytes

\* spell.bin() on a spell with a large param mapping.
BinBigCall ==
  /\ pc = "start"
  /\ \E o \in BigOrders(spell) :
       /\ ords' = o
       /\ BinReturned(bin(spell, o))
  /\ pc' = "encoded"
  /\ UNCHANGED <<spell, outBefore, data, dec, again>>
  /\ UNCHANGED nonCodecVars

CountNext ==
  \/ BinBigCall
  \/ DecodeEncoded

CountSpec == CountInit /\ [][CountNext]_vars

(***************************************************************************)
(* Calls of the transport codec by several threads.                        *)
(***************************************************************************)
\* No codec call is in progress.
CodecIdle ==
  /\ pc = "start"
  /\ spell = EmptySpell
  /\ ords = <<>>
  /\ outBefore = <<>>
  /\ out = <<>>
  /\ res = NoResult
  /\ data = <<>>
  /\ dec = NoDecode
  /\ again = NoBytes

\* A caller holds the bytes b; no transport call was made yet.
TransportInit ==
  /\ CodecIdle
  /\ TrainerIdle
  /\ tpc = "idle"
  /\ tbytes \in TBytes
  /\ tenc = "none"
  /\ ttext = <<>>
  /\ tdec = "none"
  /\ tres = NoTransport
  /\ cdict = [t \in Threads |-> Unbuilt]
  /\ ddict = [t \in Threads |-> Unbuilt]

\* LazyCell deref inside ZSTD_CDICT.with / ZSTD_DDICT.with on thread t: the
\* initializer runs on the first use of the thread's own cell.
ForcedC(t) ==
  IF cdict[t].built THEN cdict ELSE [cdict EXCEPT ![t] = EncoderDictionary(t)]

ForcedD(t) ==
  IF ddict[t].built THEN ddict ELSE [ddict EXCEPT ![t] = DecoderDictionary(t)]

\* Thread t calls bytes_to_url_safe on the caller's bytes (lib crate).
BytesToUrlSafeCall ==
  /\ tpc \in {"idle", "done"}
  /\ \E t \in Threads :
       /\ cdict' = ForcedC(t)
       /\ ttext' = bytes_to_url_safe(cdict'[t], tbytes)
  /\ tenc' = "lib"
  /\ tdec' = "none"
  /\ tres' = NoTransport
  /\ tpc' = "text"
  /\ UNCHANGED <<tbytes, ddict>>
  /\ UNCHANGED nonTransportVars

\* Thread t calls url_safe_to_bytes on the text at hand (lib crate).
UrlSafeToBytesCall ==
  /\ tpc = "text"
  /\ \E t \in Threads :
       /\ ddict' = ForcedD(t)
       /\ tres' = url_safe_to_bytes(ddict'[t], ttext)
  /\ tdec' = "lib"
  /\ tpc' = "done"
  /\ UNCHANGED <<tbytes, tenc, ttext, cdict>>
  /\ UNCHANGED nonTransportVars

\* bytesToUrlSafe(b) of the crate in src/src: a dictionary per call.
WasmBytesToUrlSafeCall ==
  /\ tpc \in {"idle", "done"}
  /\ ttext' = bytesToUrlSafe(tbytes)
  /\ tenc' = "wasm"
  /\ tdec' = "none"
  /\ tres' = NoTransport
  /\ tpc' = "text"
  /\ UNCHANGED <<tbytes, cdict, ddict>>
  /\ UNCHANGED nonTransportVars

\* urlSafeToBytes on the text at hand (crate in src/src).
WasmUrlSafeToBytesCall ==
  /\ tpc = "text"
  /\ tres' = urlSafeToBytes(ttext)
  /\ tdec' = "wasm"
  /\ tpc' = "done"
  /\ UNCHANGED <<tbytes, tenc, ttext, cdict, ddict>>
  /\ UNCHANGED nonTransportVars

\* A caller holds a text that no encoder call of this process returned.
ForeignText ==
  /\ tpc \in {"idle", "done"}
  /\ tbytes = <<>>
  /\ ttext' \in ForeignTexts
  /\ tenc' = "foreign"
  /\ tdec' = "none"
  /\ tres' = NoTransport
  /\ tpc' = "text"
  /\ UNCHANGED <<tbytes, cdict, ddict>>
  /\ UNCHANGED nonTransportVars

TransportNext ==
  \/ BytesToUrlSafeCall
  \/ UrlSafeToBytesCall
  \/ WasmBytesToUrlSafeCall
  \/ WasmUrlSafeToBytesCall
  \/ ForeignText

TransportSpec == TransportInit /\ [][TransportNext]_vars

(***************************************************************************)
(* Spell::decode on bytes no encoder wrote.                                *)
(***************************************************************************)
\* The bytes of a wire text: NUL / Connector / a count of 0, ConstantNumber
\* / a count of 1 / _x, ']', the no-params marker 254, and 255 (the generic
\* opcode, the constant marker, a literal param name, x = y = 15).
WireBytes == {0, 1, 93, 254, 255}

MaxWire == 6

\* Arbitrary bytes, alone or after the shortest header (an empty name and
\* an empty mod list).
WireTexts ==
  {h \o b : h \in {<<>>, <<0, 93>>}, b \in SeqsUpTo(WireBytes, MaxWire)}

WireInit ==
  /\ TransportIdle
  /\ TrainerIdle
  /\ pc = "wire"
  /\ spell = EmptySpell
  /\ ords = <<>>
  /\ outBefore = <<>>
  /\ out = <<>>
  /\ res = NoResult
  /\ data \in WireTexts
  /\ dec = NoDecode
  /\ again = NoBytes

\* Spell::decode(data) on the wire text.
DecodeWire ==
  /\ pc = "wire"
  /\ dec' = decode(data)
  /\ pc' = "decoded"
  /\ UNCHANGED <<spell, ords, outBefore, out, res, data, again>>
  /\ UNCHANGED nonCodecVars

WireNext == DecodeWire

WireSpec == WireInit /\ [][WireNext]_vars

(***************************************************************************)
(* The dictionary trainer (psip): `process` on a description, then the     *)
(* hand-over of the samples.                                               *)
(***************************************************************************)
\* desc.as_bytes().iter().position(|&b| b == b'{'), 1-based, 0 for None.
BracePos(d) == FirstIndex(d, LBRACE)

\* desc = &desc[brace..]
FromBrace(d) == SubSeq(d, BracePos(d), Len(d))

\* position(|&b| b == b'\n').unwrap_or(desc.len()), on the text from the
\* brace on.
LineEnd(d) == IF FirstIndex(d, NEWLINE) = 0 THEN Len(d) ELSE FirstIndex(d, NEWLINE) - 1

\* let s = &desc[..end]; desc = &desc[end..];
Candidate(d) == SubSeq(FromBrace(d), 1, LineEnd(FromBrace(d)))

RestOf_fromBrace(d) == FromBrace(d)

\* desc = &desc[end..]
RestOf(d) == SubSeq(FromBrace(d), LineEnd(FromBrace(d)) + 1, Len(FromBrace(d)))

\* psi_spell_encode::snbt_to_spell(s): the texts "{0", "{1", ... ('0' is 48) stand for
\* the SNBT of the spells of TrainerSpells, every other text is malformed.
snbt_to_spell(s) ==
  IF Len(s) = 2 /\ s[1] = LBRACE /\ s[2] - 48 \in 0..(Len(TrainerSpells) - 1)
    THEN [ok |-> TRUE, spell |-> TrainerSpells[s[2] - 48 + 1]]
    ELSE [ok |-> FALSE, spell |-> EmptySpell]

\* piece.data.key.starts_with("rpsideas") for a piece of the spell.
StartsWith(t, prefix) ==
  Len(t) >= Len(prefix) /\ SubSeq(t, 1, Len(prefix)) = prefix

HasRpsideas(sp) ==
  \E i \in 1..Len(sp.pieces) : StartsWith(sp.pieces[i].data.key, T_rpsideas)

\* heck::AsSnakeCase on a key of ASCII letters: an upper-case letter is
\* lowered, and starts a new word when it follows a lower-case one.
RECURSIVE SnakeFrom(_, _)
SnakeFrom(k, i) ==
  IF i > Len(k) THEN <<>>
  ELSE (IF k[i] \in 65..90
          THEN (IF i > 1 /\ k[i - 1] \in 97..122 THEN <<95>> ELSE <<>>) \o <<k[i] + 32>>
          ELSE <<k[i]>>)
       \o SnakeFrom(k, i + 1)

AsSnakeCase(k) == SnakeFrom(k, 1)

\* if !piece.data.key.contains(':') { key = format!("psi:{}", AsSnakeCase(key)) }
LegacyKey(k) ==
  IF \E j \in 1..Len(k) : k[j] = COLON THEN k ELSE PSI \o AsSnakeCase(k)

Relabelled(sp) ==
  [sp EXCEPT !.pieces =
     [i \in 1..Len(sp.pieces) |->
        [sp.pieces[i] EXCEPT !.data.key = LegacyKey(sp.pieces[i].data.key)]]]

\* std::mem::take of every comment and of the name.
Stripped(sp) ==
  [sp EXCEPT !.name = <<>>,
             !.pieces = [i \in 1..Len(sp.pieces) |->
                           [sp.pieces[i] EXCEPT !.data.comment = None]]]

\* piece_counts after the keys of pieces i.. were counted.
RECURSIVE Counted(_, _, _)
Counted(counts, pieces, i) ==
  IF i > Len(pieces) THEN counts
  ELSE Counted(IF pieces[i].data.key \in DOMAIN counts
                 THEN [counts EXCEPT ![pieces[i].data.key] = @ + 1]
                 ELSE Insert(counts, pieces[i].data.key, 1),
               pieces, i + 1)

\* The trainer's buffers: what one pass of the loop reads and writes.
TrainerState ==
  [samples |-> samples, sample_sizes |-> sample_sizes, spells |-> spells,
   piece_counts |-> piece_counts, crashed |-> FALSE]

TruncateTo_kept(buf, len_before) == buf

\* samples.truncate(len_before)
TruncateTo(buf, len_before) == SubSeq(buf, 1, len_before)

\* The second extend_bin (comments and name restored) returned r2; st holds
\* the buffers before it, len_before their length (`let len_before`, the second).
AfterFull(st, s, sp, len_before, r2) ==
  IF r2.kind = "Panic" THEN [st EXCEPT !.samples = r2.out, !.crashed = TRUE]
  ELSE IF r2.kind # "Ok" THEN [st EXCEPT !.samples = r2.out]
  ELSE [st EXCEPT !.samples = TruncateTo(r2.out, len_before),
                  !.spells = Append(@, [snbt_len |-> Len(s),
                                        bin_size |-> Len(r2.out) - len_before,
                                        spell |-> sp])]

\* The first extend_bin (comments and name taken) returned r1.
AfterStripped(st, s, o, sp, r1) ==
  IF r1.kind = "Panic" THEN [st EXCEPT !.samples = r1.out, !.crashed = TRUE]
  ELSE IF r1.kind # "Ok" THEN [st EXCEPT !.samples = r1.out]
  ELSE AfterFull([st EXCEPT !.samples = r1.out,
                            !.sample_sizes = Append(@, Len(r1.out) - Len(st.samples))],
                 s, sp, Len(r1.out), extend_bin(sp, o, r1.out))

\* The spell sp, its keys relabelled, is counted and encoded twice.
Sampled(st, s, o, sp) ==
  AfterStripped([st EXCEPT !.piece_counts = Counted(@, sp.pieces, 1)],
                s, o, sp, extend_bin(Stripped(sp), o, st.samples))

\* snbt_to_spell(s) returned parsed.
AfterSnbt(st, s, o, parsed) ==
  IF ~parsed.ok THEN st
  ELSE IF HasRpsideas(parsed.spell) THEN st
  ELSE Sampled(st, s, o, Relabelled(parsed.spell))

\* The iteration orders of the param maps of the spell the text s holds.
CandidateOrders(s) ==
  IF snbt_to_spell(s).ok THEN Orders(snbt_to_spell(s).spell) ELSE {<<>>}

TrainerBecomes(st) ==
  /\ samples' = st.samples
  /\ sample_sizes' = st.sample_sizes
  /\ spells' = st.spells
  /\ piece_counts' = st.piece_counts
  /\ kpc' = IF st.crashed THEN "crashed" ELSE "scan"

TrainerInit ==
  /\ CodecIdle
  /\ TransportIdle
  /\ kpc = "scan"
  /\ desc \in Descs
  /\ samples = <<>>
  /\ sample_sizes = <<>>
  /\ spells = <<>>
  /\ piece_counts = <<>>

\* What a pass does to the text: `while let Some(brace) = ..`, then
\* desc = &desc[brace..] and desc = &desc[end..].
ConsumeCandidate ==
  /\ kpc = "scan"
  /\ BracePos(desc) > 0
  /\ desc' = RestOf(desc)

\* One pass of `'next_spell: while let Some(brace) = ..` of process.
ProcessCandidate ==
  /\ ConsumeCandidate
  /\ \E o \in CandidateOrders(Candidate(desc)) :
       TrainerBecomes(AfterSnbt(TrainerState, Candidate(desc), o,
                                snbt_to_spell(Candidate(desc))))
  /\ UNCHANGED nonTrainerVars

\* The loop of process ends: no '{' is left.
ProcessReturn ==
  /\ kpc = "scan"
  /\ BracePos(desc) = 0
  /\ kpc' = "scanned"
  /\ UNCHANGED <<desc, samples, sample_sizes, spells, piece_counts>>
  /\ UNCHANGED nonTrainerVars

\* if sample_sizes.is_empty() { return; }
\* zstd::dict::from_continuous(&samples, &sample_sizes, 5 << 20)
TrainCall ==
  /\ kpc = "scanned"
  /\ kpc' = IF sample_sizes = <<>> THEN "returned" ELSE "training"
  /\ UNCHANGED <<desc, samples, sample_sizes, spells, piece_counts>>
  /\ UNCHANGED nonTrainerVars

TrainerNext ==
  \/ ProcessCandidate
  \/ ProcessReturn
  \/ TrainCall

TrainerSpec == TrainerInit /\ [][TrainerNext]_vars

\* main runs on one thread and nothing blocks it: a pass of the loop, the
\* return from it and the hand-over are taken when they can be.
TrainerFairSpec ==
  /\ TrainerSpec
  /\ WF_desc(ConsumeCandidate)
  /\ WF_vars(ProcessReturn)
  /\ WF_vars(TrainCall)

(***************************************************************************)
(* Vocabulary of the properties.                                           *)
(***************************************************************************)
HasByte(t, byte) == \E j \in 1..Len(t) : t[j] = byte

OptText(o) == IF o.some THEN o.val ELSE <<>>

\* A piece the data model calls valid: 4-bit coordinates, a namespaced key,
\* params absent or non-empty, not both a mapping and a constant, no NUL in
\* a text field.
ValidPiece(p) ==
  /\ p.x <= 15 /\ p.y <= 15
  /\ HasByte(p.data.key, COLON)
  /\ p.data.params.some => DOMAIN p.data.params.val # {}
  /\ ~(p.data.params.some /\ p.data.constant.some)
  /\ ~HasByte(p.data.key, NUL)
  /\ ~HasByte(OptText(p.data.constant), NUL)
  /\ ~HasByte(OptText(p.data.comment), NUL)
  /\ \A n \in ParamKeys(p) : ~HasByte(n, NUL)

ValidMod(m) ==
  \A t \in {m.name, m.version} :
    ~HasByte(t, COMMA) /\ ~HasByte(t, SEMI) /\ ~HasByte(t, RBRACKET)

ValidSpell(s) ==
  /\ ~HasByte(s.name, NUL)
  /\ \A i \in 1..Len(s.mods) : ValidMod(s.mods[i])
  /\ \A i \in 1..Len(s.pieces) : ValidPiece(s.pieces[i])

\* The state after decode was applied to exactly the bytes bin returned.
RoundTripped == pc = "decoded" /\ data = out

\* The length of the header of the encoding of s.
HeaderLen(s) == Len(s.name) + 1 + Len(ModsHeader(s.mods))

\* The offset in the encoding of s at which piece k ends (the header for 0).
RECURSIVE PieceEnd(_, _, _)
PieceEnd(s, o, k) ==
  IF k = 0 THEN HeaderLen(s)
  ELSE PieceEnd(s, o, k - 1) + Len(EncodePiece(s.pieces[k], o[k]).bytes)

PieceBoundaries(s, o) == {PieceEnd(s, o, k) : k \in 0..Len(s.pieces)}

(***************************************************************************)
(* C1  Round trip: for every valid spell v, decode(v.bin()) succeeds and   *)
(* returns a value equal to v, mods and pieces in the same order.          *)
(***************************************************************************)
C1_RoundTrip ==
  (RoundTripped /\ ValidSpell(spell)) => (dec.kind = "Ok" /\ dec.spell = spell)

(***************************************************************************)
(* C2  Mods header round trip: the header is "name,version" entries joined *)
(* by ';' and closed by ']' (a lone ']' for no mods), and decoding it      *)
(* yields exactly the original mods list, the empty list included.         *)
(***************************************************************************)
C2_ModsRoundTrip ==
  (RoundTripped /\ \A i \in 1..Len(spell.mods) : ValidMod(spell.mods[i]))
    => /\ SubSeq(out, Len(spell.name) + 2, HeaderLen(spell)) = ModsHeader(spell.mods)
       /\ out[HeaderLen(spell)] = RBRACKET
       /\ dec.kind = "Ok" => dec.spell.mods = spell.mods

(***************************************************************************)
(* C3  Namespace normalization: a key with no ':' (of any length) comes    *)
(* back from encode-then-decode prefixed with "psi:"; a key beginning with *)
(* "psi:" and a key with another namespace come back unchanged.            *)
(***************************************************************************)
NormalizedKey(key) == IF HasByte(key, COLON) THEN key ELSE PSI \o key

C3_NamespaceNormalization ==
  /\ pc = "encoded" => res.kind # "Panic"
  /\ (RoundTripped /\ dec.kind = "Ok")
       => /\ Len(dec.spell.pieces) = Len(spell.pieces)
          /\ \A i \in 1..Len(spell.pieces) :
               dec.spell.pieces[i].data.key = NormalizedKey(spell.pieces[i].data.key)

(***************************************************************************)
(* C4  Encoder totality: for every Spell value, encoding returns bytes or  *)
(* a MissingParameter error; it never crashes.                             *)
(***************************************************************************)
C4_EncoderTotal ==
  pc \in {"encoded", "extended"} => res.kind \in {"Ok", "MissingParam"}

(***************************************************************************)
(* C5  Decoder totality: for every byte sequence decode returns a Spell or *)
(* an error and never crashes; an opcode byte outside {0..19, 255} is      *)
(* InvalidDiscriminant, and a param-name byte that is neither a catalog    *)
(* index nor 255 is a decoding error.                                      *)
(***************************************************************************)
C5_DecoderTotal ==
  pc = "decoded"
    => /\ dec.kind \in {"Ok", "Io", "Utf8", "InvalidDiscriminant"}
       /\ LET h == HeaderLen(spell)
          IN  (/\ Len(data) >= h + 2
               /\ SubSeq(data, 1, h) = SubSeq(out, 1, h)
               /\ ~ValidDiscriminant(data[h + 2]))
                => dec.kind = "InvalidDiscriminant"

(***************************************************************************)
(* C6  Truncation is always an error: decode of a proper prefix of a valid *)
(* encoding that does not end at a piece boundary fails.                   *)
(***************************************************************************)
C6_TruncationFails ==
  (/\ pc = "decoded"
   /\ Len(data) < Len(out)
   /\ Len(data) \notin PieceBoundaries(spell, ords))
    => dec.kind # "Ok"

(***************************************************************************)
(* Special-tag shapes, as the layout table of the format states them.      *)
(***************************************************************************)
\* The parameters the layout table gives each special tag, in payload order.
TagShape(tag) ==
  CASE tag \in {Connector, VectorExtractX, VectorExtractY, VectorExtractZ,
                EntityPosition, EntityLook, Die} -> <<P_target>>
    [] tag = VectorConstruct -> <<P_x, P_y, P_z>>
    [] tag \in {VectorSum, VectorSub, VectorMul, VectorDiv}
         -> <<P_vector1, P_vector2, P_vector3>>
    [] tag \in {Sum, Sub, Mul, Div} -> <<P_number1, P_number2, P_number3>>
    [] tag = Mod -> <<P_number1, P_number2>>
    [] OTHER -> <<>>

HasParam(p, n) == p.data.params.some /\ n \in DOMAIN p.data.params.val

\* The tag under which the encoder writes piece p (255 for the generic path).
WrittenTag(p) == special_tag(StripPsi(p.data.key))

\* p is written under a special tag and lacks a parameter that tag requires.
LacksRequired(p) ==
  /\ ~KeySlicePanics(p.data.key)
  /\ WrittenTag(p) # SpecialTag_None
  /\ \E k \in 1..Len(TagShape(WrittenTag(p))) : ~HasParam(p, TagShape(WrittenTag(p))[k])

\* The position in the tag's shape of the first parameter p lacks.
FirstMissingIdx(p) ==
  CHOOSE k \in 1..Len(TagShape(WrittenTag(p))) :
    /\ ~HasParam(p, TagShape(WrittenTag(p))[k])
    /\ \A j \in 1..(k - 1) : HasParam(p, TagShape(WrittenTag(p))[j])

FirstMissing(p) == TagShape(WrittenTag(p))[FirstMissingIdx(p)]

\* The values of the required parameters that precede the first missing one.
PresentBefore(p) ==
  [k \in 1..(FirstMissingIdx(p) - 1) |-> p.data.params.val[TagShape(WrittenTag(p))[k]]]

\* The encoder reaches piece i: every piece before it was written.
Reaches(i) ==
  \A j \in 1..(i - 1) : EncodePiece(spell.pieces[j], ords[j]).kind = "Ok"

Encoded == pc \in {"encoded", "extended"}

(***************************************************************************)
(* C7  Missing-parameter failure: encoding a piece that is written under a *)
(* special tag and whose param mapping is absent or lacks a parameter the  *)
(* tag requires fails with MissingParameter; nothing is written in place   *)
(* of the missing value, and there is no crash.                            *)
(***************************************************************************)
C7_MissingParameter ==
  Encoded =>
    \A i \in 1..Len(spell.pieces) :
      (LacksRequired(spell.pieces[i]) /\ Reaches(i))
        => LET p    == spell.pieces[i]
               tail == <<PackXY(p.x, p.y), WrittenTag(p)>> \o PresentBefore(p)
           IN  /\ res.kind = "MissingParam"
               /\ pc = "encoded" => out = <<>>
               /\ pc = "extended"
                    => /\ Len(out) = Len(outBefore) + PieceEnd(spell, ords, i - 1)
                                     + Len(tail)
                       /\ SubSeq(out, Len(out) - Len(tail) + 1, Len(out)) = tail

\* A vector-construct piece holding _x but not _y, reached after an earlier
\* piece was written, fails with MissingParameter after the byte of _x.
C7_Witness ==
  /\ pc = "extended"
  /\ Len(spell.pieces) = 2
  /\ LacksRequired(spell.pieces[2])
  /\ Reaches(2)
  /\ FirstMissing(spell.pieces[2]) = P_y
  /\ res.kind = "MissingParam"

(***************************************************************************)
(* C8  The MissingParameter error carries the piece's x, y and key and the *)
(* name of the parameter that was looked up and found missing.             *)
(***************************************************************************)
C8_ErrorNamesParam ==
  Encoded =>
    \A i \in 1..Len(spell.pieces) :
      (LacksRequired(spell.pieces[i]) /\ Reaches(i))
        => LET p == spell.pieces[i]
           IN  res.err = MissingParamError(p.x, p.y, p.data.key, FirstMissing(p))

(***************************************************************************)
(* C9  No partial output on failure: when extend_bin fails, the caller's   *)
(* buffer holds exactly the bytes it held before the call.                 *)
(***************************************************************************)
C9_NoPartialOutput ==
  (pc = "extended" /\ res.kind = "MissingParam") => out = outBefore

(***************************************************************************)
(* C10  Tag minimality: a piece whose key and parameters exactly match the *)
(* shape of one of the twenty special tags is written with that tag's      *)
(* opcode, strictly shorter than the same piece on the generic (255) path. *)
(***************************************************************************)
ExactShape(p, t) ==
  /\ p.data.key = TagKeyTable[t + 1]
  /\ ParamKeys(p) = {TagShape(t)[k] : k \in 1..Len(TagShape(t))}
  /\ p.data.params.some <=> TagShape(t) # <<>>

\* The piece written on the generic path.
GenericPath(p, ord) ==
  <<PackXY(p.x, p.y), SpecialTag_None>> \o StripPsi(p.data.key) \o <<NUL>>
  \o OptText(p.data.comment) \o <<NUL>> \o GenericParamBlock(p.data, ord)

C10_TagMinimality ==
  (pc = "encoded" /\ res.kind = "Ok") =>
    \A i \in 1..Len(spell.pieces) : \A t \in 0..19 :
      ExactShape(spell.pieces[i], t)
        => /\ out[PieceEnd(spell, ords, i - 1) + 2] = t
           /\ PieceEnd(spell, ords, i) - PieceEnd(spell, ords, i - 1)
                < Len(GenericPath(spell.pieces[i], ords[i]))

(***************************************************************************)
(* C11  Encoder determinism: two encode calls on equal Spell values give   *)
(* byte-identical output, whatever the number of entries of a param        *)
(* mapping.                                                                *)
(***************************************************************************)
C11_Deterministic ==
  pc = "reencoded" => (again.kind = res.kind /\ again.bytes = out)

(***************************************************************************)
(* C12  Concrete connector layout: a spell with name N, no mods and one    *)
(* connector piece at (x, y) with params {_target: t} and no comment       *)
(* encodes to exactly N, 0x00, 0x5D, x<<4|y, 0x00, t, 0x00.                *)
(***************************************************************************)
\* s has no mods and one connector piece holding exactly _target, no comment.
ConnectorScenario(s) ==
  /\ s.mods = <<>>
  /\ Len(s.pieces) = 1
  /\ s.pieces[1].data.key \in {PSI \o K_connector, K_connector}
  /\ s.pieces[1].x <= 15 /\ s.pieces[1].y <= 15
  /\ ParamKeys(s.pieces[1]) = {P_target}
  /\ ~s.pieces[1].data.comment.some

C12_ConnectorLayout ==
  (pc = "encoded" /\ ConnectorScenario(spell))
    => /\ res.kind = "Ok"
       /\ out = spell.name
                \o <<0, 93, spell.pieces[1].x * 16 + spell.pieces[1].y, 0,
                     spell.pieces[1].data.params.val[P_target], 0>>

\* "Test", no mods, a psi:connector piece at (0, 0) with _target 3 was
\* encoded to "Test" 00 5D 00 00 03 00.
C12_Witness ==
  /\ pc = "encoded"
  /\ ConnectorScenario(spell)
  /\ spell.name = T_Test
  /\ spell.pieces[1].x = 0 /\ spell.pieces[1].y = 0
  /\ spell.pieces[1].data.params.val[P_target] = 3
  /\ out = <<84, 101, 115, 116, 0, 93, 0, 0, 3, 0>>

(***************************************************************************)
(* Reading an encoding by the layout table, without the decoder.           *)
(***************************************************************************)
\* The offset of the first NUL of d after offset p, Len(d) + 1 when none.
NulAfter(d, p) ==
  IF \E j \in (p + 1)..Len(d) : d[j] = NUL
    THEN CHOOSE j \in (p + 1)..Len(d) :
           d[j] = NUL /\ \A k \in (p + 1)..(j - 1) : d[k] # NUL
    ELSE Len(d) + 1

\* The number of payload bytes the layout table gives a piece written under
\* opcode t.
PayloadLen(p, t) ==
  IF t = SpecialTag_None THEN Len(StripPsi(p.data.key)) + 1
  ELSE IF t = ConstantNumber THEN Len(OptText(p.data.constant)) + 1
  ELSE Len(TagShape(t))

\* The offset at which piece k ends when every piece carries a generic param
\* block exactly if the opcode byte written for it is 255.
RECURSIVE LayoutEnd(_)
LayoutEnd(k) ==
  IF k = 0 THEN HeaderLen(spell)
  ELSE LayoutEnd(k - 1) + 2
       + PayloadLen(spell.pieces[k], out[LayoutEnd(k - 1) + 2])
       + Len(OptText(spell.pieces[k].data.comment)) + 1
       + (IF out[LayoutEnd(k - 1) + 2] = SpecialTag_None
            THEN Len(GenericParamBlock(spell.pieces[k].data, ords[k])) ELSE 0)

\* The offset in data at which the piece that follows the first k - 1 pieces
\* of the encoding starts, and its opcode byte.
StartOf(k) == PieceEnd(spell, ords, k - 1)

\* data agrees with the encoding up to the start of piece k and holds an
\* opcode byte for it.
SharesPrefix(k) ==
  /\ Len(data) >= StartOf(k) + 2
  /\ SubSeq(data, 1, StartOf(k)) = SubSeq(out, 1, StartOf(k))

\* The offset of the comment terminator of the piece that starts at offset s
\* of data under special tag t, capped at the end of data.
CommentEnd(s, t) ==
  IF t = ConstantNumber
    THEN IF NulAfter(data, s + 2) > Len(data) THEN Len(data)
         ELSE IF NulAfter(data, NulAfter(data, s + 2)) > Len(data) THEN Len(data)
         ELSE NulAfter(data, NulAfter(data, s + 2))
    ELSE IF NulAfter(data, s + 2 + Len(TagShape(t))) > Len(data) THEN Len(data)
         ELSE NulAfter(data, s + 2 + Len(TagShape(t)))

\* The param mapping the layout table gives the piece at offset s of data
\* under special tag t.
PayloadParams(s, t) ==
  IF TagShape(t) = <<>> THEN None
  ELSE Some([n \in {TagShape(t)[j] : j \in 1..Len(TagShape(t))} |->
               data[s + 2 + CHOOSE j \in 1..Len(TagShape(t)) : TagShape(t)[j] = n]])

\* Some(empty mapping) is written as a count of 0 and read back as absent.
ReadBackParams(params) ==
  IF params.some /\ DOMAIN params.val # {} THEN params ELSE None

(***************************************************************************)
(* C18  The encoder writes a generic param block for a piece exactly if    *)
(* the opcode byte it wrote is 255, and the decoder reads one exactly if   *)
(* the opcode byte it read is 255; for an opcode 0..19 the decoder builds  *)
(* the param mapping from the tag payload under the tag's canonical names  *)
(* and takes the byte after the comment terminator as the next piece.      *)
(***************************************************************************)
C18_ParamBlockAgreement ==
  /\ (pc = "encoded" /\ res.kind = "Ok")
       => /\ LayoutEnd(Len(spell.pieces)) = Len(out)
          /\ \A k \in 1..Len(spell.pieces) :
               out[LayoutEnd(k - 1) + 2] = SpecialTag_None
                 => SubSeq(out, LayoutEnd(k)
                                - Len(GenericParamBlock(spell.pieces[k].data, ords[k])) + 1,
                           LayoutEnd(k))
                    = GenericParamBlock(spell.pieces[k].data, ords[k])
  /\ (RoundTripped /\ dec.kind = "Ok")
       => \A k \in 1..Len(spell.pieces) :
            out[StartOf(k) + 2] = SpecialTag_None
              => /\ dec.spell.pieces[k].data.params
                      = ReadBackParams(spell.pieces[k].data.params)
                 /\ dec.spell.pieces[k].data.constant
                      = (IF spell.pieces[k].data.params.some THEN None
                         ELSE spell.pieces[k].data.constant)
  /\ (pc = "decoded" /\ dec.kind = "Ok")
       => \A k \in 1..Len(spell.pieces) :
            (SharesPrefix(k) /\ data[StartOf(k) + 2] \in 0..19)
              => /\ Len(dec.spell.pieces) >= k
                 /\ dec.spell.pieces[k].data.key = TagKeyTable[data[StartOf(k) + 2] + 1]
                 /\ dec.spell.pieces[k].data.params
                      = PayloadParams(StartOf(k), data[StartOf(k) + 2])
                 /\ IF CommentEnd(StartOf(k), data[StartOf(k) + 2]) >= Len(data)
                      THEN Len(dec.spell.pieces) = k
                      ELSE /\ Len(dec.spell.pieces) > k
                           /\ dec.spell.pieces[k + 1].x * 16 + dec.spell.pieces[k + 1].y
                                = data[CommentEnd(StartOf(k), data[StartOf(k) + 2]) + 1]

\* A vector-construct piece whose opcode byte was replaced by the vector-sum
\* opcode decodes to a piece with _vector1, _vector2, _vector3, followed by
\* nothing.
C18_Witness ==
  /\ pc = "decoded"
  /\ dec.kind = "Ok"
  /\ Len(spell.pieces) = 2
  /\ SharesPrefix(2)
  /\ out[StartOf(2) + 2] = VectorConstruct
  /\ data[StartOf(2) + 2] = VectorSum
  /\ ParamKeys(dec.spell.pieces[2]) = {P_vector1, P_vector2, P_vector3}
  /\ Len(dec.spell.pieces) = 2

(***************************************************************************)
(* C20  Constant-number round trip: for a piece written under the          *)
(* constant-number tag, decode(encode(p)) preserves the constant: a        *)
(* present text comes back the same, an absent one comes back absent.      *)
(***************************************************************************)
C20_ConstantRoundTrip ==
  (RoundTripped /\ dec.kind = "Ok")
    => \A k \in 1..Len(spell.pieces) :
         WrittenTag(spell.pieces[k]) = ConstantNumber
           => dec.spell.pieces[k].data.constant = spell.pieces[k].data.constant

(***************************************************************************)
(* C19  Generic param count byte: for a generic piece whose param mapping  *)
(* has n entries the encoder writes a count byte equal to n, in 0..253,    *)
(* and the decoder reads back exactly n entries.                           *)
(***************************************************************************)
\* The offset of the first byte of the param block of generic piece k.
BlockOffset(k) ==
  StartOf(k) + 2 + Len(StripPsi(spell.pieces[k].data.key)) + 1
  + Len(OptText(spell.pieces[k].data.comment)) + 1 + 1

GenericWithParams(p) ==
  /\ WrittenTag(p) = SpecialTag_None
  /\ p.data.params.some

C19_CountByte ==
  /\ (pc = "encoded" /\ res.kind = "Ok")
       => \A k \in 1..Len(spell.pieces) :
            GenericWithParams(spell.pieces[k])
              => /\ out[BlockOffset(k)] = Cardinality(ParamKeys(spell.pieces[k]))
                 /\ out[BlockOffset(k)] \in 0..253
  /\ RoundTripped
       => \A k \in 1..Len(spell.pieces) :
            GenericWithParams(spell.pieces[k])
              => /\ dec.kind = "Ok"
                 /\ Len(dec.spell.pieces) = Len(spell.pieces)
                 /\ ParamKeys(dec.spell.pieces[k]) = ParamKeys(spell.pieces[k])

(***************************************************************************)
(* C13  Transport round trip: for every byte sequence b within the         *)
(* decompression cap, url_safe_to_bytes(bytes_to_url_safe(b)) succeeds and *)
(* returns b.                                                              *)
(***************************************************************************)
\* url_safe_to_bytes returned, on a text bytes_to_url_safe returned.
LibRoundTripped == tpc = "done" /\ tenc = "lib" /\ tdec = "lib"

C13_TransportRoundTrip ==
  (LibRoundTripped /\ Len(tbytes) <= Capacity)
    => tres = [kind |-> "Ok", bytes |-> tbytes]

\* As many bytes as the cap allows, not all the same, came back.
C13_Witness ==
  /\ LibRoundTripped
  /\ Len(tbytes) = Capacity
  /\ ~IsRun(tbytes)
  /\ tres.kind = "Ok"
  /\ tres.bytes = tbytes

(***************************************************************************)
(* C14  Bounded decompression: every transport-decoding entry point        *)
(* returns at most the cap and fails whenever the decompressed size of its *)
(* input would exceed the cap.                                             *)
(***************************************************************************)
C14_BoundedDecompression ==
  tpc = "done"
    => /\ tres.kind = "Ok" => Len(tres.bytes) <= Capacity
       /\ (tenc = tdec /\ Len(tbytes) > Capacity) => tres.kind # "Ok"

(***************************************************************************)
(* C15  Shared dictionary: the prepared dictionaries are process-wide,     *)
(* built once and used by every call on every thread.                      *)
(***************************************************************************)
C15_SharedDictionary ==
  \A t, u \in Threads :
    /\ (cdict[t].built /\ cdict[u].built) => cdict[t] = cdict[u]
    /\ (ddict[t].built /\ ddict[u].built) => ddict[t] = ddict[u]

(***************************************************************************)
(* C16  Independent batch failures in the trainer: the recorded sample     *)
(* sizes add up to the length of the sample buffer; a spell whose encoding *)
(* fails contributes no bytes and no size entry.                           *)
(***************************************************************************)
RECURSIVE SumOf(_)
SumOf(sizes) == IF sizes = <<>> THEN 0 ELSE Head(sizes) + SumOf(Tail(sizes))

C16_SamplesAddUp == SumOf(sample_sizes) = Len(samples)

(***************************************************************************)
(* C17  Trainer sampling: for each discovered spell that encodes           *)
(* successfully the trainer hands the dictionary trainer two samples, the  *)
(* encoding with comments stripped and the one with comments retained,     *)
(* each with its own length entry.                                         *)
(***************************************************************************)
C17_TwoSamples ==
  kpc = "training" => Len(sample_sizes) = 2 * Len(spells)

\* C17 as the code has it: each spell that encodes successfully is encoded twice and
\* adds one sample, its encoding with name and comments stripped, with the
\* matching length entry; the encoding with them retained is measured,
\* recorded with the spell, and removed from the sample buffer.
LastSpell == spells'[Len(spells')]

C17_OneSample ==
  [][Len(spells') = Len(spells) + 1
       => \E o \in Orders(LastSpell.spell) :
            /\ samples' = samples \o bin(Stripped(LastSpell.spell), o).bytes
            /\ sample_sizes'
                 = Append(sample_sizes, Len(bin(Stripped(LastSpell.spell), o).bytes))
            /\ LastSpell.bin_size = Len(bin(LastSpell.spell, o).bytes)]_vars

\* A spell with a comment was sampled: one size entry, smaller than the
\* length recorded for the spell.
C17_Witness ==
  /\ Len(spells) = 1
  /\ spells[1].spell.pieces # <<>>
  /\ spells[1].spell.pieces[1].data.comment.some
  /\ Len(sample_sizes) = 1
  /\ sample_sizes[1] = Len(samples)
  /\ spells[1].bin_size > sample_sizes[1]

(***************************************************************************)
(* C21  Well-formed decoder output: every piece of a spell Spell::decode   *)
(* returns, whatever the input bytes, has x <= 15 and y <= 15, has params  *)
(* absent or a non-empty mapping, and never has both a param mapping and a *)
(* constant.                                                               *)
(***************************************************************************)
WellFormedPiece(piece) ==
  /\ piece.x \in 0..15
  /\ piece.y \in 0..15
  /\ piece.data.params.some => DOMAIN piece.data.params.val # {}
  /\ ~(piece.data.params.some /\ piece.data.constant.some)

C21_WellFormedOutput ==
  dec.kind = "Ok"
    => \A i \in 1..Len(dec.spell.pieces) : WellFormedPiece(dec.spell.pieces[i])

\* A wire text held a generic piece with a count byte of 0: the piece came
\* back without params and without a constant.
C21_Witness ==
  /\ dec.kind = "Ok"
  /\ pc = "decoded"
  /\ data = <<0, 93, 255, 255, 0, 0, 0>>
  /\ Len(dec.spell.pieces) = 1
  /\ dec.spell.pieces[1].x = 15
  /\ ~dec.spell.pieces[1].data.params.some

(***************************************************************************)
(* C22  The trainer's spell-extraction loop terminates for every           *)
(* description: each pass that finds a '{' consumes at least one byte of   *)
(* the remaining text, whether the candidate parses, is skipped for an     *)
(* rpsideas piece or fails to encode, so the loop is left eventually.      *)
(***************************************************************************)
C22_LoopTerminates ==
  /\ [][kpc = "scan" /\ BracePos(desc) > 0 => Len(desc') < Len(desc)]_vars
  /\ <>(kpc # "scan")

\* The loop was left after two passes: one spell was sampled, another
\* failed to encode.
C22_Witness ==
  /\ kpc = "scanned"
  /\ Len(spells) = 1
  /\ SumOf(sample_sizes) < Len(samples)

=============================================================================
